---------------------------- MODULE Spec2Model ----------------------------
(***************************************************************************)
(* Model of the consensus-layer reference-test viewer:                     *)
(*   - the offline index builder of scripts/prepare.js (findTestCases,     *)
(*     parseTestPath, buildManifest),                                      *)
(*   - the client-side tree and filter engine of js/tree.js (buildTree,    *)
(*     the facet buttons, updateButtonStates, filterTree) together with    *)
(*     the search box of js/main.js (setupSearch).                         *)
(* Strings are TLA+ strings; the string functions of the code (split,      *)
(* endsWith, includes, trim, toLowerCase, path.join) are computed          *)
(* character by character.                                                 *)
(***************************************************************************)
EXTENDS Integers, Sequences, FiniteSets, TLC

VARIABLES
  \* ---- js/tree.js and js/main.js (browser) ----
  treeData,          \* tree.js: the manifest handed to buildTree
  tree,              \* the .tree-node elements: id -> [dataset, leaf]
  display,           \* node.style.display of every tree node
  collapsed,         \* 'collapsed' class of the .tree-children of a node
  selectedPresets,   \* tree.js module state
  selectedForks,
  selectedRunners,
  btnActive,         \* 'active' class of every facet button
  btnDisabled,       \* btn.disabled of every facet button
  searchInput,       \* value of the #searchInput element
  searchTerm,        \* main.js state.searchTerm
  searchTimeout,     \* main.js setupSearch: a debounce timer is pending
  timerTerm,         \* history: <<state.searchTerm>> as it was when the timer was last set
  clickHist,         \* history: the last facet click(s) and the state before them
  lastHandler,       \* history: the event handler that ran last
  \* ---- scripts/prepare.js buildManifest ----
  testCases,         \* the argument of buildManifest
  bmIndex,           \* position of the for-of loop
  manifest,          \* the manifest under construction
  bmPc,              \* "idle" | "loop" | "done"
  \* ---- scripts/prepare.js findTestCases ----
  fsys,              \* the directory tree on disk: path -> entries
  walkStack,         \* pending walk() calls (depth first)
  walkLog,           \* history: the directories walk() was called on, in order
  results,           \* findTestCases: results
  walkPc,            \* "idle" | "walk" | "done"
  \* ---- scripts/prepare.js updateVersionsFile ----
  versionsFile,      \* versions.json: NULL while absent, else the object it holds
  updateHist,        \* history: the last call of updateVersionsFile and the file before it
  \* ---- scripts/deserialize_missing.js ----
  disk,              \* the paths of the files below testsDir
  batchSize,         \* BATCH_SIZE = os.cpus().length
  runNo,             \* history: how many times the script has been started
  resPc,             \* "idle" | "launch" | "await" | "done"
  allSszFiles,       \* deserializeMissingSSZFiles: allSszFiles
  filesToProcess,    \* filesToProcess
  skippedGeneral,
  alreadyExists,
  successCount,
  skippedCount,
  errorCount,
  batchIdx,
  settled,           \* the promises of the running batch: NULL while pending, else the result
  decodeLog,         \* history: <<run, sszFile>> -> the calls of deserializeSingleFile, each
                     \* "pending" or the way its subprocess ended
  \* ---- js/main.js onTestSelect ----
  testFiles,         \* files of the selected test case
  sszWithYaml,       \* onTestSelect: sszWithYaml
  filePromises,      \* name -> "pending" | "fulfilled" | "rejected"
  loadedFileMap,     \* onTestSelect: loadedFileMap
  allLoadedFiles,    \* onTestSelect: allLoadedFiles
  fileBoxUpdates,    \* history: the calls of updateFileBox, in order
  loadPc,            \* "idle" | "loading" | "done"
  downloadTest,      \* the download button: enabled, and the files enableDownloadTest got
  \* ---- js/main.js: the session (version selector, cache) ----
  currentVersion,    \* state.currentVersion
  manifestOf,        \* state.manifest: the version it was fetched for, or "none"
  treeOf,            \* the version whose manifest the tree was built from, or "none"
  loadedSuites,      \* state.loadedSuites: cache key -> what was loaded
  testLoads,         \* the calls of onTestSelect that wait for their files
  manifestLoads,     \* the calls of loadVersionData that wait for loadManifest
  errorShown,        \* showError was called
  selectLog,         \* history: how each selection was served
  sinceChange,       \* history: the cases whose load completed since the last version change
  everLoaded,        \* history: the cases whose load completed in this session
  changeHist,        \* history: the last version change and the state before it
  \* ---- js/main.js setupSearch: the debounce timer ----
  now,               \* the clock, in ticks of 100 ms
  boxValue,          \* searchInput.value
  stateTerm,         \* state.searchTerm
  timerRef,          \* setupSearch: searchTimeout, 0 for null
  timers,            \* the timers that are set and have not run: [id, due]
  searchLog,         \* history: keystrokes, clear clicks and calls of filterTree
  \* ---- scripts/prepare.js main ----
  prepPc,            \* the step main() is at
  prepVersion,       \* main: version
  presetIdx,         \* downloadAndExtractTests: position in PRESETS
  extractedPresets,  \* the presets whose archive has been extracted
  indexBuilt,        \* findTestCases and buildManifest have returned
  manifestWritten,   \* manifest.json has been written by this run
  exitStatus,        \* the exit status of the process, -1 while it runs
  failedStep,        \* history: the step that threw, "" if none
  versionsAtStart,   \* history: versions.json when the run began
  \* ---- js/tree.js: building the tree ----
  forkKeys,          \* the fork names in the order Object.entries gives them
  sortedForks,       \* sortedForks
  treeManifest,      \* buildTree: manifest
  treeNodes,         \* the .tree-node elements of the tree container, nested
  treePc,            \* "idle" before buildTree has run, "built" after
  toggleLog,         \* history: the label clicks on inner nodes, <<node, collapsed afterwards>>
  \* ---- js/main.js onTestSelect, several calls in flight ----
  selectCalls,       \* the calls of onTestSelect that missed the cache, with their locals
  viewer,            \* #testViewer: the title and the file boxes of #testContent
  downloadButton,    \* #downloadTestButton: enabled, and the name and files it is bound to
  suiteCache         \* state.loadedSuites: cacheKey -> allLoadedFiles

filterVars == <<treeData, tree, display, collapsed, selectedPresets, selectedForks,
                selectedRunners, btnActive, btnDisabled, searchInput, searchTerm,
                searchTimeout, timerTerm, clickHist, lastHandler>>
buildVars == <<testCases, bmIndex, manifest, bmPc>>
walkVars == <<fsys, walkStack, walkLog, results, walkPc>>
versionVars == <<versionsFile, updateHist>>
\* the variables of the parts that came to the model later
resolverVars == <<disk, batchSize, runNo, resPc, allSszFiles, filesToProcess, skippedGeneral,
                  alreadyExists, successCount, skippedCount, errorCount, batchIdx, settled,
                  decodeLog>>
loaderVars == <<testFiles, sszWithYaml, filePromises, loadedFileMap, allLoadedFiles,
                fileBoxUpdates, loadPc, downloadTest>>
sessionVars == <<currentVersion, manifestOf, treeOf, loadedSuites, testLoads, manifestLoads,
                 errorShown, selectLog, sinceChange, everLoaded, changeHist>>
debounceVars == <<now, boxValue, stateTerm, timerRef, timers, searchLog>>
prepVars == <<prepPc, prepVersion, presetIdx, extractedPresets, indexBuilt, manifestWritten,
              exitStatus, failedStep, versionsAtStart>>
treeVars == <<forkKeys, sortedForks, treeManifest, treeNodes, treePc, toggleLog>>
selectVars == <<selectCalls, viewer, downloadButton, suiteCache>>
restVars ==
  <<versionVars, resolverVars, loaderVars, sessionVars, debounceVars, prepVars, treeVars,
    selectVars>>
vars == <<filterVars, buildVars, walkVars, restVars>>

-----------------------------------------------------------------------------
(* Bounds of the model *)

\* longest list of directories handed to buildManifest
MaxDirs == 3

\* most directories of the tree on disk that hold something besides subdirectories
MaxFilled == 2

\* most test cases of the manifest loaded into the browser
MaxLoaded == 2

\* most clicks on the labels of inner nodes
MaxToggles == 1

-----------------------------------------------------------------------------
(* JavaScript strings *)

\* the value null
NULL == [null |-> TRUE]

\* the object literal {}
EmptyObj == [k \in {} |-> 0]

\* obj[k] = v
Put(obj, k, v) == [x \in (DOMAIN obj) \cup {k} |-> IF x = k THEN v ELSE obj[x]]

CharAt(s, i) == SubSeq(s, i, i)

\* String.prototype.endsWith
EndsWith(s, suffix) ==
  /\ Len(s) >= Len(suffix)
  /\ SubSeq(s, Len(s) - Len(suffix) + 1, Len(s)) = suffix

\* String.prototype.startsWith
StartsWith(s, prefix) ==
  /\ Len(s) >= Len(prefix)
  /\ SubSeq(s, 1, Len(prefix)) = prefix

\* String.prototype.includes
Includes(s, t) ==
  \E i \in 1..(Len(s) - Len(t) + 1) : SubSeq(s, i, i + Len(t) - 1) = t

UpperChars == "ABCDEFGHIJKLMNOPQRSTUVWXYZ"
LowerChars == "abcdefghijklmnopqrstuvwxyz"

\* the lower-case letter of every upper-case letter
LowerOf ==
  [ c \in { CharAt(UpperChars, i) : i \in 1..Len(UpperChars) } |->
    CharAt(LowerChars, CHOOSE i \in 1..Len(UpperChars) : CharAt(UpperChars, i) = c) ]

LowerChar(c) == IF c \in DOMAIN LowerOf THEN LowerOf[c] ELSE c

RECURSIVE ToLowerCase(_)
\* String.prototype.toLowerCase
ToLowerCase(s) ==
  IF Len(s) = 0 THEN s
  ELSE LowerChar(CharAt(s, 1)) \o ToLowerCase(SubSeq(s, 2, Len(s)))

IsSpace(c) == c = " "

RECURSIVE TrimStart(_)
TrimStart(s) ==
  IF Len(s) > 0 /\ IsSpace(CharAt(s, 1)) THEN TrimStart(SubSeq(s, 2, Len(s))) ELSE s

RECURSIVE TrimEnd(_)
TrimEnd(s) ==
  IF Len(s) > 0 /\ IsSpace(CharAt(s, Len(s))) THEN TrimEnd(SubSeq(s, 1, Len(s) - 1)) ELSE s

\* String.prototype.trim
Trim(s) == TrimEnd(TrimStart(s))

PathSep == "/"

RECURSIVE SplitFrom(_, _, _)
\* the pieces of s from position i on, cur being the piece read so far
SplitFrom(s, i, cur) ==
  IF i > Len(s) THEN <<cur>>
  ELSE IF CharAt(s, i) = PathSep THEN <<cur>> \o SplitFrom(s, i + 1, "")
  ELSE SplitFrom(s, i + 1, cur \o CharAt(s, i))

\* testPath.split(path.sep)
Split(s) == SplitFrom(s, 1, "")

\* path.join(a, b) for a non-empty directory path a and an entry name b
PathJoin(a, b) == a \o PathSep \o b

-----------------------------------------------------------------------------
(* scripts/prepare.js: parseTestPath and buildManifest *)

\* a parse that takes paths of seven segments and no others
ParseTestPathSevenOnly(testPath) ==
  LET parts == Split(testPath)
  IN IF Len(parts) # 7 THEN NULL
     ELSE [preset |-> parts[2], fork |-> parts[3], testType |-> parts[4],
           testSuite |-> parts[5], config |-> parts[6], testCase |-> parts[7]]

\* a parse that reads the key from segment 0 on
ParseTestPathFromRoot(testPath) ==
  LET parts == Split(testPath)
  IN IF Len(parts) < 7 THEN NULL
     ELSE [preset |-> parts[1], fork |-> parts[2], testType |-> parts[3],
           testSuite |-> parts[4], config |-> parts[5], testCase |-> parts[6]]

\* parseTestPath(testPath)
ParseTestPath(testPath) ==
  LET parts == Split(testPath)
  IN IF Len(parts) < 7 THEN NULL
     ELSE [preset |-> parts[2], fork |-> parts[3], testType |-> parts[4],
           testSuite |-> parts[5], config |-> parts[6], testCase |-> parts[7]]

\* a manifest literal whose total counts the directories that parse
NewManifestCountsParsed(tcs) ==
  [presets |-> EmptyObj,
   stats |-> [totalTests |->
     Cardinality({ i \in 1..Len(tcs) : ParseTestPath(tcs[i].path) # NULL })]]

\* the manifest literal buildManifest starts from
NewManifest(tcs) == [presets |-> EmptyObj, stats |-> [totalTests |-> Len(tcs)]]

\* a suite record whose count starts one too high
NewSuiteCountsFromOne == [configs |-> EmptyObj, testCount |-> 1]

\* the suite record created on first encounter
NewSuite == [configs |-> EmptyObj, testCount |-> 0]

\* the entry pushed onto tests
TestEntry(testCase, parsed) ==
  [name |-> parsed.testCase, files |-> testCase.files, path |-> testCase.path]

\* a level created without looking whether it exists already
GetOrCreateAlwaysFresh(obj, k, fresh) == fresh

\* if (!obj[k]) { obj[k] = fresh }; the level obj[k] afterwards
GetOrCreate(obj, k, fresh) == IF k \in DOMAIN obj THEN obj[k] ELSE fresh

\* one iteration of the for-of loop of buildManifest
BuildStep(m, testCase) ==
  LET parsed == ParseTestPath(testCase.path)
  IN IF parsed = NULL THEN m
     ELSE
       LET ps  == m.presets
           pr  == GetOrCreate(ps, parsed.preset, [forks |-> EmptyObj])
           fk  == GetOrCreate(pr.forks, parsed.fork, [testTypes |-> EmptyObj])
           tt  == GetOrCreate(fk.testTypes, parsed.testType, [testSuites |-> EmptyObj])
           su  == GetOrCreate(tt.testSuites, parsed.testSuite, NewSuite)
           cf  == GetOrCreate(su.configs, parsed.config, [tests |-> <<>>])
           cf2 == [tests |-> Append(cf.tests, TestEntry(testCase, parsed))]
           su2 == [configs |-> Put(su.configs, parsed.config, cf2),
                   testCount |-> su.testCount + 1]
           tt2 == [testSuites |-> Put(tt.testSuites, parsed.testSuite, su2)]
           fk2 == [testTypes |-> Put(fk.testTypes, parsed.testType, tt2)]
           pr2 == [forks |-> Put(pr.forks, parsed.fork, fk2)]
       IN [m EXCEPT !.presets = Put(ps, parsed.preset, pr2)]

RECURSIVE BuildFrom(_, _, _)
BuildFrom(m, tcs, i) ==
  IF i > Len(tcs) THEN m ELSE BuildFrom(BuildStep(m, tcs[i]), tcs, i + 1)

\* buildManifest(testCases), run to completion
BuildManifest(tcs) == BuildFrom(NewManifest(tcs), tcs, 1)

-----------------------------------------------------------------------------
(* Inputs of buildManifest: results of a directory walk, pairwise distinct paths *)

Dir(p, fs) == [path |-> p, files |-> fs]

DirPool ==
  { Dir("tests/minimal/phase0/sanity/blocks/py/c0", <<"meta.yaml", "pre.ssz_snappy">>),
    Dir("tests/minimal/phase0/sanity/blocks/py/c1", <<"data.yaml">>),
    Dir("tests/minimal/phase0/sanity/blocks/alt/c0", <<"data.yaml">>),
    Dir("tests/minimal/phase0/sanity/slots/py/c0", <<"pre.ssz_snappy">>),
    Dir("tests/mainnet/altair/ssz_static/Validator/rnd/c0", <<"roots.yaml", "v.ssz_snappy">>),
    Dir("tests/minimal/phase0", <<"meta.yaml">>),
    Dir("other/minimal/phase0/sanity/blocks/py/c0", <<"data.yaml">>),
    Dir("tests/minimal/phase0/sanity/blocks/py/c2/part", <<"data.yaml">>),
    Dir("tests/minimal/phase0/sanity/blocks/py/c2/other", <<"data.yaml">>) }

Range(q) == {q[i] : i \in 1..Len(q)}

RECURSIVE SeqsOver(_, _)
\* the duplicate-free sequences over S of length at most n
SeqsOver(S, n) ==
  IF n = 0 THEN {<<>>}
  ELSE LET shorter == SeqsOver(S, n - 1)
       IN shorter \cup
          UNION { {Append(q, x) : x \in S \ Range(q)} :
                  q \in {r \in shorter : Len(r) = n - 1} }

\* the orderings of the elements of sequence q
Orderings(q) ==
  { r \in [1..Len(q) -> Range(q)] : Range(r) = Range(q) }

-----------------------------------------------------------------------------
(* Idle values of the variables a specification does not use *)

FilterIdle ==
  /\ treeData = NULL /\ tree = EmptyObj /\ display = EmptyObj /\ collapsed = EmptyObj
  /\ selectedPresets = {} /\ selectedForks = {} /\ selectedRunners = {}
  /\ btnActive = EmptyObj /\ btnDisabled = EmptyObj
  /\ searchInput = "" /\ searchTerm = "" /\ searchTimeout = FALSE /\ timerTerm = <<>>
  /\ clickHist = NULL
  /\ lastHandler = "init"

BuildIdle ==
  /\ testCases = <<>> /\ bmIndex = 0 /\ manifest = NULL /\ bmPc = "idle"

WalkIdle ==
  /\ fsys = EmptyObj /\ walkStack = <<>> /\ walkLog = <<>> /\ results = <<>>
  /\ walkPc = "idle"

VersionsIdle == versionsFile = NULL /\ updateHist = NULL

\* idle values of the parts that came to the model later
ResolverIdle ==
  /\ disk = {} /\ batchSize = 1 /\ runNo = 0 /\ resPc = "idle"
  /\ allSszFiles = <<>> /\ filesToProcess = <<>>
  /\ skippedGeneral = 0 /\ alreadyExists = 0
  /\ successCount = 0 /\ skippedCount = 0 /\ errorCount = 0
  /\ batchIdx = 0 /\ settled = <<>> /\ decodeLog = EmptyObj

LoaderIdle ==
  /\ testFiles = <<>> /\ sszWithYaml = {} /\ filePromises = EmptyObj
  /\ loadedFileMap = EmptyObj /\ allLoadedFiles = <<>> /\ fileBoxUpdates = <<>>
  /\ loadPc = "idle"
  /\ downloadTest = [enabled |-> FALSE, files |-> <<>>]

SessionIdle ==
  /\ currentVersion = "none" /\ manifestOf = "none" /\ treeOf = "none"
  /\ loadedSuites = EmptyObj /\ testLoads = <<>> /\ manifestLoads = <<>>
  /\ errorShown = FALSE /\ selectLog = <<>> /\ sinceChange = {} /\ everLoaded = {}
  /\ changeHist = [phase |-> "none"]

DebounceIdle ==
  /\ now = 0 /\ boxValue = "" /\ stateTerm = "" /\ timerRef = 0 /\ timers = {}
  /\ searchLog = <<>>

PrepIdle ==
  /\ prepPc = "idle" /\ prepVersion = "" /\ presetIdx = 0 /\ extractedPresets = {}
  /\ indexBuilt = FALSE /\ manifestWritten = FALSE /\ exitStatus = -1 /\ failedStep = ""
  /\ versionsAtStart = NULL

TreeIdle ==
  /\ forkKeys = <<>> /\ sortedForks = <<>> /\ treeManifest = NULL /\ treeNodes = <<>>
  /\ treePc = "idle" /\ toggleLog = <<>>

SelectIdle ==
  /\ selectCalls = <<>> /\ viewer = NULL /\ downloadButton = NULL /\ suiteCache = EmptyObj

RestIdle ==
  /\ VersionsIdle /\ ResolverIdle /\ LoaderIdle /\ SessionIdle /\ DebounceIdle /\ PrepIdle
  /\ TreeIdle /\ SelectIdle

-----------------------------------------------------------------------------
(* buildManifest as a state machine: one loop iteration per step *)

BuildInit ==
  /\ testCases \in SeqsOver(DirPool, MaxDirs)
  /\ bmIndex = 1
  /\ manifest = NewManifest(testCases)
  /\ bmPc = "loop"

\* a loop that ends at the first path that does not parse
BuildIterateStopsAtInvalid ==
  /\ bmPc = "loop"
  /\ bmIndex <= Len(testCases)
  /\ manifest' = BuildStep(manifest, testCases[bmIndex])
  /\ bmIndex' = IF ParseTestPath(testCases[bmIndex].path) = NULL
                THEN Len(testCases) + 1 ELSE bmIndex + 1
  /\ UNCHANGED <<testCases, bmPc>>
  /\ UNCHANGED <<filterVars, walkVars, restVars>>

\* for (const testCase of testCases) { ... }
BuildIterate ==
  /\ bmPc = "loop"
  /\ bmIndex <= Len(testCases)
  /\ manifest' = BuildStep(manifest, testCases[bmIndex])
  /\ bmIndex' = bmIndex + 1
  /\ UNCHANGED <<testCases, bmPc>>
  /\ UNCHANGED <<filterVars, walkVars, restVars>>

\* return manifest
BuildReturn ==
  /\ bmPc = "loop"
  /\ bmIndex > Len(testCases)
  /\ bmPc' = "done"
  /\ UNCHANGED <<testCases, bmIndex, manifest>>
  /\ UNCHANGED <<filterVars, walkVars, restVars>>

InitBuild == BuildInit /\ FilterIdle /\ WalkIdle /\ RestIdle

NextBuild == BuildIterate \/ BuildReturn

SpecBuild == InitBuild /\ [][NextBuild]_vars

-----------------------------------------------------------------------------
(* Reading a manifest *)

\* the (preset, fork, testType) triples of a manifest
Triples(m) ==
  UNION { UNION { { <<p, f, t>> : t \in DOMAIN m.presets[p].forks[f].testTypes } :
                  f \in DOMAIN m.presets[p].forks } :
          p \in DOMAIN m.presets }

\* the (preset, fork, testType, testSuite) keys of a manifest
SuiteKeys(m) ==
  UNION { { <<k[1], k[2], k[3], s>> :
            s \in DOMAIN m.presets[k[1]].forks[k[2]].testTypes[k[3]].testSuites } :
          k \in Triples(m) }

SuiteAt(m, k) == m.presets[k[1]].forks[k[2]].testTypes[k[3]].testSuites[k[4]]

\* the positions <<suite key, config, index>> of the test entries of a manifest
EntryPositions(m) ==
  UNION { UNION { { <<k, c, i>> : i \in 1..Len(SuiteAt(m, k).configs[c].tests) } :
                  c \in DOMAIN SuiteAt(m, k).configs } :
          k \in SuiteKeys(m) }

EntryAt(m, pos) == SuiteAt(m, pos[1]).configs[pos[2]].tests[pos[3]]

\* a manifest's presets with every tests sequence read as a set
AsSets(m) ==
  [ p \in DOMAIN m.presets |->
    [ f \in DOMAIN m.presets[p].forks |->
      [ t \in DOMAIN m.presets[p].forks[f].testTypes |->
        [ s \in DOMAIN m.presets[p].forks[f].testTypes[t].testSuites |->
          LET su == SuiteAt(m, <<p, f, t, s>>)
          IN [ testCount |-> su.testCount,
               configs |-> [ c \in DOMAIN su.configs |-> Range(su.configs[c].tests) ] ] ] ] ] ]

\* the directories of the input whose path parses
Accepted(tcs) == { i \in 1..Len(tcs) : ParseTestPath(tcs[i].path) # NULL }

-----------------------------------------------------------------------------
(* Properties of buildManifest *)

\* C7: in the manifest buildManifest returns, the testCount of every suite is the
\* number of test entries in the tests of its configs, and every accepted input
\* directory is filed, and so counted, exactly once.
C7_TestCountIsEntryCount ==
  bmPc = "done" =>
    /\ \A k \in SuiteKeys(manifest) :
         SuiteAt(manifest, k).testCount =
           Cardinality({ pos \in EntryPositions(manifest) : pos[1] = k })
    /\ \A i \in Accepted(testCases) :
         Cardinality({ pos \in EntryPositions(manifest) :
                        EntryAt(manifest, pos).path = testCases[i].path }) = 1
    /\ Cardinality(EntryPositions(manifest)) = Cardinality(Accepted(testCases))

\* a returned manifest with a suite of two configs and a skipped directory
C7_Witness ==
  /\ bmPc = "done"
  /\ Accepted(testCases) # 1..Len(testCases)
  /\ \E k \in SuiteKeys(manifest) :
       /\ SuiteAt(manifest, k).testCount >= 2
       /\ Cardinality(DOMAIN SuiteAt(manifest, k).configs) >= 2

\* C8: every ordering of the same directories gives a manifest with the same keys
\* at every level, the same testCount in every suite and the same set of entries
\* in every tests sequence.
C8_OrderIndependent ==
  bmPc = "done" =>
    \A r \in Orderings(testCases) : AsSets(BuildManifest(r)) = AsSets(manifest)

\* a returned manifest that another ordering builds with a different tests order
C8_Witness ==
  /\ bmPc = "done"
  /\ \E r \in Orderings(testCases) :
       /\ BuildManifest(r).presets # manifest.presets
       /\ AsSets(BuildManifest(r)) = AsSets(manifest)

-----------------------------------------------------------------------------
(* scripts/prepare.js: findTestCases *)

Entry(n, k) == [name |-> n, kind |-> k]

\* Dirent.isFile(), Dirent.isDirectory(): a symbolic link is neither
IsFile(e) == e.kind = "file"

IsDirectory(e) == e.kind = "dir"

\* entries.some(e => e.name === 'data.yaml')
HasDataYaml(entries) == \E i \in 1..Len(entries) : entries[i].name = "data.yaml"

\* a fixture test that takes the suffix for the whole name
HasSszFilesByEquality(entries) ==
  \E i \in 1..Len(entries) : entries[i].name = ".ssz_snappy"

\* entries.some(e => e.name.endsWith('.ssz_snappy'))
HasSszFiles(entries) ==
  \E i \in 1..Len(entries) : EndsWith(entries[i].name, ".ssz_snappy")

\* entries.some(e => e.name === 'meta.yaml')
HasMetaYaml(entries) == \E i \in 1..Len(entries) : entries[i].name = "meta.yaml"

\* hasDataYaml || hasSszFiles || hasMetaYaml
IsTestCaseDir(entries) ==
  HasDataYaml(entries) \/ HasSszFiles(entries) \/ HasMetaYaml(entries)

RECURSIVE FileNames(_)
\* entries.filter(e => e.isFile()).map(e => e.name)
FileNames(entries) ==
  IF entries = <<>> THEN <<>>
  ELSE (IF IsFile(Head(entries)) THEN <<Head(entries).name>> ELSE <<>>)
       \o FileNames(Tail(entries))

\* relativePath ? path.join(relativePath, entry.name) : entry.name
NewRelativePath(relativePath, name) ==
  IF relativePath # "" THEN PathJoin(relativePath, name) ELSE name

Frame(cur, rel) == [currentPath |-> cur, relativePath |-> rel, next |-> 0]

Top == walkStack[Len(walkStack)]

Pop(st) == SubSeq(st, 1, Len(st) - 1)

-----------------------------------------------------------------------------
(* Directory trees handed to findTestCases *)

Root == "root"

\* the directories of the tree and the subdirectories of each
SubdirNames ==
  [ d \in {"root", "root/a", "root/b", "root/a/c", "root/a/d", "root/a/c/e"} |->
    CASE d = "root"   -> <<"a", "b">>
      [] d = "root/a" -> <<"c", "d">>
      [] d = "root/a/c" -> <<"e">>
      [] OTHER -> <<>> ]

TreeDirs == DOMAIN SubdirNames

\* what a directory may hold besides its subdirectories
Fillings ==
  << <<Entry("data.yaml", "file")>>,
     <<Entry("meta.yaml", "file"), Entry("pre.ssz_snappy", "file")>>,
     <<Entry("post.ssz_snappy", "file"), Entry("link", "other")>>,
     <<Entry("notes.txt", "file"), Entry("data.yaml.bak", "file"), Entry("meta.yml", "file")>>,
     <<Entry("x.ssz_snappy.yaml", "file"), Entry("ssz_snappy", "file")>>,
     <<Entry("blob.ssz_snappy", "dir")>> >>

\* the tree in which directory d holds Fillings[fill[d]] (nothing for 0)
TreeOf(fill) ==
  [ d \in TreeDirs \cup { PathJoin(x, "blob.ssz_snappy") : x \in TreeDirs } |->
    IF d \notin TreeDirs THEN <<>>
    ELSE (IF fill[d] = 0 THEN <<>> ELSE Fillings[fill[d]])
         \o [ i \in 1..Len(SubdirNames[d]) |-> Entry(SubdirNames[d][i], "dir") ] ]

TreePool ==
  { TreeOf(fill) :
    fill \in { g \in [TreeDirs -> 0..Len(Fillings)] :
               Cardinality({ d \in TreeDirs : g[d] # 0 }) <= MaxFilled } }

-----------------------------------------------------------------------------
(* findTestCases as a state machine: the recursion of walk() on a stack *)

WalkInit ==
  /\ fsys \in TreePool
  /\ walkStack = << Frame(Root, "") >>
  /\ walkLog = <<>>
  /\ results = <<>>
  /\ walkPc = "walk"

\* walk(): readdirSync, the directory holds a marker: results.push
WalkRecord ==
  /\ walkPc = "walk" /\ walkStack # <<>>
  /\ Top.next = 0
  /\ IsTestCaseDir(fsys[Top.currentPath])
  /\ results' = Append(results, [path |-> Top.relativePath,
                                 files |-> FileNames(fsys[Top.currentPath])])
  /\ walkLog' = Append(walkLog, Top.currentPath)
  /\ walkStack' = Pop(walkStack)
  /\ UNCHANGED <<fsys, walkPc>>
  /\ UNCHANGED <<filterVars, buildVars, restVars>>

\* walk(): readdirSync, no marker: enter the for-of loop over the entries
WalkKeepWalking ==
  /\ walkPc = "walk" /\ walkStack # <<>>
  /\ Top.next = 0
  /\ ~IsTestCaseDir(fsys[Top.currentPath])
  /\ walkLog' = Append(walkLog, Top.currentPath)
  /\ walkStack' = [walkStack EXCEPT ![Len(walkStack)].next = 1]
  /\ UNCHANGED <<fsys, results, walkPc>>
  /\ UNCHANGED <<filterVars, buildVars, restVars>>

\* the loop meets a directory entry: walk(newPath, newRelativePath)
WalkIntoDirectory ==
  /\ walkPc = "walk" /\ walkStack # <<>>
  /\ Top.next \in 1..Len(fsys[Top.currentPath])
  /\ LET entry == fsys[Top.currentPath][Top.next]
     IN /\ IsDirectory(entry)
        /\ walkStack' =
             Append([walkStack EXCEPT ![Len(walkStack)].next = Top.next + 1],
                    Frame(PathJoin(Top.currentPath, entry.name),
                          NewRelativePath(Top.relativePath, entry.name)))
  /\ UNCHANGED <<fsys, walkLog, results, walkPc>>
  /\ UNCHANGED <<filterVars, buildVars, restVars>>

\* the loop meets an entry that is no directory
WalkSkipEntry ==
  /\ walkPc = "walk" /\ walkStack # <<>>
  /\ Top.next \in 1..Len(fsys[Top.currentPath])
  /\ ~IsDirectory(fsys[Top.currentPath][Top.next])
  /\ walkStack' = [walkStack EXCEPT ![Len(walkStack)].next = Top.next + 1]
  /\ UNCHANGED <<fsys, walkLog, results, walkPc>>
  /\ UNCHANGED <<filterVars, buildVars, restVars>>

\* the loop is over: walk() returns to its caller
WalkReturn ==
  /\ walkPc = "walk" /\ walkStack # <<>>
  /\ Top.next > Len(fsys[Top.currentPath])
  /\ walkStack' = Pop(walkStack)
  /\ UNCHANGED <<fsys, walkLog, results, walkPc>>
  /\ UNCHANGED <<filterVars, buildVars, restVars>>

\* return results
WalkFinish ==
  /\ walkPc = "walk" /\ walkStack = <<>>
  /\ walkPc' = "done"
  /\ UNCHANGED <<fsys, walkStack, walkLog, results>>
  /\ UNCHANGED <<filterVars, buildVars, restVars>>

InitWalk == WalkInit /\ FilterIdle /\ BuildIdle /\ RestIdle

NextWalk ==
  \/ WalkRecord
  \/ WalkKeepWalking
  \/ WalkIntoDirectory
  \/ WalkSkipEntry
  \/ WalkReturn
  \/ WalkFinish

SpecWalk == InitWalk /\ [][NextWalk]_vars

-----------------------------------------------------------------------------
(* Properties of findTestCases *)

\* a name that marks a test-case directory
MarkerName(n) == n = "data.yaml" \/ n = "meta.yaml" \/ EndsWith(n, ".ssz_snappy")

\* directory d has an entry, of any kind, with a marker name
HasMarkerEntry(d) == \E i \in 1..Len(fsys[d]) : MarkerName(fsys[d][i].name)

\* directory d has a regular file with a marker name
HasMarkerFile(d) ==
  \E i \in 1..Len(fsys[d]) : MarkerName(fsys[d][i].name) /\ fsys[d][i].kind = "file"

\* the subdirectories of directory d
Subdirectories(d) ==
  { PathJoin(d, fsys[d][i].name) : i \in { j \in 1..Len(fsys[d]) : fsys[d][j].kind = "dir" } }

\* the directories strictly above d
Ancestors(d) == { a \in DOMAIN fsys : a # d /\ StartsWith(d, a \o PathSep) }

\* the directories that exist below the root
OnDisk ==
  { d \in DOMAIN fsys :
    \A x \in (Ancestors(d) \cup {d}) \ {Root} :
      \E q \in DOMAIN fsys : x \in Subdirectories(q) }

\* the path of directory d relative to the root
RelOf(d) == IF d = Root THEN "" ELSE SubSeq(d, Len(Root) + 2, Len(d))

RecordsOf(d) == { i \in 1..Len(results) : results[i].path = RelOf(d) }

Visited == Range(walkLog)

C10_NoMarkerFileNeverRecorded ==
  walkPc = "done" =>
    /\ \A d \in OnDisk : ~HasMarkerFile(d) => RecordsOf(d) = {}
    /\ \A d \in Visited : ~HasMarkerFile(d) => Subdirectories(d) \subseteq Visited
    /\ Visited \subseteq OnDisk
    /\ \A d \in OnDisk :
         (HasMarkerFile(d) /\ \A a \in Ancestors(d) : ~HasMarkerFile(a)) => RecordsOf(d) # {}

-----------------------------------------------------------------------------
(* js/tree.js: buildTree *)

\* the DOM nodes of the tree: a node is named by the keys on its path, a
\* testCase node by the keys of its config and its index in tests
PresetIds(m) == { <<p>> : p \in DOMAIN m.presets }

ForkIds(m) == UNION { { <<p, f>> : f \in DOMAIN m.presets[p].forks } : p \in DOMAIN m.presets }

ConfigIds(m) ==
  UNION { { <<k[1], k[2], k[3], k[4], c>> : c \in DOMAIN SuiteAt(m, k).configs } :
          k \in SuiteKeys(m) }

TestCaseIds(m) ==
  { <<pos[1][1], pos[1][2], pos[1][3], pos[1][4], pos[2], pos[3]>> :
    pos \in EntryPositions(m) }

NodeIds(m) ==
  PresetIds(m) \cup ForkIds(m) \cup Triples(m) \cup SuiteKeys(m) \cup ConfigIds(m)
    \cup TestCaseIds(m)

\* the node record buildTree, buildForkNodes, ..., buildTestCaseNodes make for a node
NodeData(m, id) ==
  CASE Len(id) = 1 -> [label |-> id[1], type |-> "preset", preset |-> id[1]]
    [] Len(id) = 2 -> [label |-> id[2], type |-> "fork", preset |-> id[1], fork |-> id[2]]
    [] Len(id) = 3 -> [label |-> id[3], type |-> "testType", preset |-> id[1],
                       fork |-> id[2], runner |-> id[3]]
    [] Len(id) = 4 -> [label |-> id[4], type |-> "testSuite", preset |-> id[1],
                       fork |-> id[2], runner |-> id[3],
                       count |-> SuiteAt(m, id).testCount]
    [] Len(id) = 5 -> [label |-> id[5], type |-> "config", preset |-> id[1],
                       fork |-> id[2], runner |-> id[3]]
    [] Len(id) = 6 ->
         LET test == SuiteAt(m, SubSeq(id, 1, 4)).configs[id[5]].tests[id[6]]
         IN [label |-> test.name, type |-> "testCase", preset |-> id[1],
             fork |-> id[2], runner |-> id[3],
             path |-> [preset |-> id[1], fork |-> id[2], testType |-> id[3],
                       testSuite |-> id[4], config |-> id[5], testCase |-> test.name,
                       testPath |-> test.path, files |-> test.files]]

\* container.dataset as createTreeNode fills it: a tag is set when it is truthy
Dataset(nodeData) ==
  [ k \in {"type", "label"}
          \cup { t \in {"preset", "fork", "runner"} \cap DOMAIN nodeData : nodeData[t] # "" } |->
    IF k = "label" THEN ToLowerCase(nodeData.label) ELSE nodeData[k] ]

\* createTreeNode: the element made for a node
TreeNode(m, id) ==
  [ dataset |-> Dataset(NodeData(m, id)),
    text |-> NodeData(m, id).label,
    hasChildren |-> \E c \in NodeIds(m) : Len(c) = Len(id) + 1 /\ SubSeq(c, 1, Len(id)) = id ]

\* the .tree-node elements buildTree puts into the tree container
BuildTree(m) == [ id \in NodeIds(m) |-> TreeNode(m, id) ]

\* presetOrder
PresetOrder == <<"general", "minimal", "mainnet">>

\* the facet buttons buildPresetFilters, buildForkFilters, buildRunnerFilters make
PresetButtons(m) == { <<"preset", p>> : p \in Range(PresetOrder) \cap DOMAIN m.presets }

ForkButtons(m) == { <<"fork", k[2]>> : k \in ForkIds(m) }

RunnerButtons(m) == { <<"runner", k[3]>> : k \in Triples(m) }

Buttons(m) == PresetButtons(m) \cup ForkButtons(m) \cup RunnerButtons(m)

-----------------------------------------------------------------------------
(* js/tree.js: updateButtonStates, applyFilters, filterTree *)

\* selectedX.size > 0 ? Array.from(selectedX)[0] : null
FirstOf(selected) == IF selected # {} THEN CHOOSE v \in selected : TRUE ELSE NULL

\* the forks collected into availableForks
AvailableForks(m, selP, selR) ==
  { k[2] : k \in { x \in ForkIds(m) :
                   /\ selP = {} \/ x[1] = FirstOf(selP)
                   /\ selR = {} \/ FirstOf(selR) \in DOMAIN m.presets[x[1]].forks[x[2]].testTypes } }

\* the runners collected into availableRunners
AvailableRunners(m, selP, selF) ==
  { k[3] : k \in { x \in Triples(m) :
                   /\ selP = {} \/ x[1] = FirstOf(selP)
                   /\ selF = {} \/ x[2] = FirstOf(selF) } }

\* the presets collected into availablePresets
AvailablePresets(m, selF, selR) ==
  { k[1] : k \in { x \in Triples(m) :
                   /\ selF = {} \/ x[2] = FirstOf(selF)
                   /\ selR = {} \/ x[3] = FirstOf(selR) } }

\* button states that look at the selected preset only
UpdateButtonStatesPresetOnly(m, selP, selF, selR) ==
  [ b \in Buttons(m) |->
    CASE b[1] = "fork" -> selP # {} /\ b[2] \notin AvailableForks(m, selP, {})
      [] b[1] = "runner" -> selP # {} /\ b[2] \notin AvailableRunners(m, selP, {})
      [] OTHER -> FALSE ]

\* button states that never disable a button
UpdateButtonStatesNeverDisables(m, selP, selF, selR) == [ b \in Buttons(m) |-> FALSE ]

\* updateButtonStates(): btn.disabled of every facet button afterwards
UpdateButtonStates(m, selP, selF, selR) ==
  [ b \in Buttons(m) |->
    CASE b[1] = "fork" ->
           (selP # {} \/ selR # {}) /\ b[2] \notin AvailableForks(m, selP, selR)
      [] b[1] = "runner" ->
           (selP # {} \/ selF # {}) /\ b[2] \notin AvailableRunners(m, selP, selF)
      [] b[1] = "preset" ->
           (selF # {} \/ selR # {}) /\ b[2] \notin AvailablePresets(m, selF, selR) ]

\* a preset node lies in the tree container, every other node in a .tree-node
HasParentNode(id) == Len(id) > 1

\* parentElement.closest('.tree-node') of a node that has one
ParentNode(id) == SubSeq(id, 1, Len(id) - 1)

RECURSIVE NodeAndAncestors(_)
\* the nodes the while loop of showNodeAndAncestors passes through
NodeAndAncestors(id) ==
  IF HasParentNode(id) THEN {id} \cup NodeAndAncestors(ParentNode(id)) ELSE {id}

\* a pass that shows the matching node alone
ShownNodeOnly(id) == {id}

\* the nodes showNodeAndAncestors(node) shows and expands
ShownBy(id) == NodeAndAncestors(id)

\* a search test that requires the label to equal the term
MatchesSearchByEquality(ds, term) == term = "" \/ ds.label = term

\* matchesSearch
MatchesSearch(ds, term) ==
  term = "" \/ (ds.label # "" /\ Includes(ds.label, term))

\* a facet test that lets a node without the tag pass
MatchesFacetOrUntagged(ds, tag, selected) ==
  selected = {} \/ tag \notin DOMAIN ds \/ ds[tag] \in selected

\* matchesPreset, matchesFork, matchesRunner
MatchesFacet(ds, tag, selected) ==
  selected = {} \/ (tag \in DOMAIN ds /\ ds[tag] \in selected)

\* a filter callback that leaves the fork test out once a preset is selected
MatchingPresetOverFork(nodes, term, selP, selF, selR) ==
  { id \in DOMAIN nodes :
    /\ MatchesSearch(nodes[id].dataset, term)
    /\ MatchesFacet(nodes[id].dataset, "preset", selP)
    /\ selP # {} \/ MatchesFacet(nodes[id].dataset, "fork", selF)
    /\ MatchesFacet(nodes[id].dataset, "runner", selR) }

\* the filter callback that builds matchingNodes
Matching(nodes, term, selP, selF, selR) ==
  { id \in DOMAIN nodes :
    /\ MatchesSearch(nodes[id].dataset, term)
    /\ MatchesFacet(nodes[id].dataset, "preset", selP)
    /\ MatchesFacet(nodes[id].dataset, "fork", selF)
    /\ MatchesFacet(nodes[id].dataset, "runner", selR) }

\* a filter pass that shows the nodes and leaves the collapsed classes as they are
FilterTreeNoExpand(nodes, coll, term, selP, selF, selR) ==
  IF term = "" /\ selP = {} /\ selF = {} /\ selR = {}
  THEN [display |-> [id \in DOMAIN nodes |-> ""], collapsed |-> coll]
  ELSE LET shown == UNION { ShownBy(id) : id \in Matching(nodes, term, selP, selF, selR) }
       IN [display |-> [id \in DOMAIN nodes |-> IF id \in shown THEN "" ELSE "none"],
           collapsed |-> coll]

\* a pass that collapses every node again when no filter is active
FilterTreeCollapsesOnClear(nodes, coll, term, selP, selF, selR) ==
  IF term = "" /\ selP = {} /\ selF = {} /\ selR = {}
  THEN [display |-> [id \in DOMAIN nodes |-> ""], collapsed |-> [id \in DOMAIN coll |-> TRUE]]
  ELSE LET shown == UNION { ShownBy(id) : id \in Matching(nodes, term, selP, selF, selR) }
       IN [display |-> [id \in DOMAIN nodes |-> IF id \in shown THEN "" ELSE "none"],
           collapsed |-> [id \in DOMAIN coll |-> IF id \in shown THEN FALSE ELSE coll[id]]]

\* filterTree(searchTerm): style.display and the collapsed class of every node afterwards
FilterTree(nodes, coll, term, selP, selF, selR) ==
  IF term = "" /\ selP = {} /\ selF = {} /\ selR = {}
  THEN [display |-> [id \in DOMAIN nodes |-> ""], collapsed |-> coll]
  ELSE LET shown == UNION { ShownBy(id) : id \in Matching(nodes, term, selP, selF, selR) }
       IN [display |-> [id \in DOMAIN nodes |-> IF id \in shown THEN "" ELSE "none"],
           collapsed |-> [id \in DOMAIN coll |-> IF id \in shown THEN FALSE ELSE coll[id]]]

\* a facet set that keeps its earlier values when a new one is selected
ToggleWithoutClear(selected, v) == IF v \in selected THEN selected \ {v} ELSE selected \cup {v}

\* the click handler of a facet button, on the facet's selection set
Toggle(selected, v) == IF v \in selected THEN selected \ {v} ELSE {v}

\* a click handler that leaves the active class on the button it switches off
ToggleActiveNeverOff(active, selected, b) ==
  [x \in DOMAIN active |-> IF x[1] = b[1] THEN x = b ELSE active[x]]

\* the click handler of a facet button, on the active class of the buttons
ToggleActive(active, selected, b) ==
  IF b[2] \in selected THEN [active EXCEPT ![b] = FALSE]
  ELSE [x \in DOMAIN active |-> IF x[1] = b[1] THEN x = b ELSE active[x]]

-----------------------------------------------------------------------------
(* The browser after init(): a manifest is loaded and its tree is built *)

\* directories a loaded manifest is built from
LoadPool ==
  << Dir("tests/minimal/phase0/sanity/blocks/py/c0", <<"meta.yaml", "pre.ssz_snappy">>),
     Dir("tests/minimal/altair/ssz_static/Validator/rnd/c0", <<"roots.yaml", "v.ssz_snappy">>),
     Dir("tests/mainnet/phase0/ssz_static/Validator/rnd/C1", <<"roots.yaml">>),
     Dir("tests/general/phase0/bls/sign/small/c0", <<"data.yaml">>) >>

\* the lists of at most MaxLoaded directories, in the order of the walk
LoadedInputs ==
  { q \in SeqsOver(Range(LoadPool), MaxLoaded) :
    /\ q # <<>>
    /\ \A i, j \in 1..Len(q) :
         i < j => \E a, b \in 1..Len(LoadPool) : a < b /\ LoadPool[a] = q[i] /\ LoadPool[b] = q[j] }

\* what the user may have typed into the search box
SearchTexts == {"", " C1 ", "Val"}

FilterInit ==
  /\ treeData \in { BuildManifest(q) : q \in LoadedInputs }
  /\ tree = BuildTree(treeData)
  /\ display = [id \in DOMAIN tree |-> ""]
  /\ collapsed = [id \in { n \in DOMAIN tree : tree[n].hasChildren } |-> TRUE]
  /\ selectedPresets = {} /\ selectedForks = {} /\ selectedRunners = {}
  /\ btnActive = [b \in Buttons(treeData) |-> FALSE]
  /\ btnDisabled = [b \in Buttons(treeData) |-> FALSE]
  /\ searchInput = "" /\ searchTerm = "" /\ searchTimeout = FALSE /\ timerTerm = <<>>
  /\ clickHist = NULL
  /\ lastHandler = "init"

\* the filter state a click history remembers
Snapshot ==
  [selectedPresets |-> selectedPresets, selectedForks |-> selectedForks,
   selectedRunners |-> selectedRunners, btnActive |-> btnActive]

\* the click history after a click on button b: the value was switched on, or
\* off, or on and then off by two clicks in a row
Clicked(b, wasSelected) ==
  IF ~wasSelected THEN [button |-> b, kind |-> "on", before |-> Snapshot]
  ELSE IF clickHist # NULL /\ clickHist.kind = "on" /\ clickHist.button = b
       THEN [clickHist EXCEPT !.kind = "onoff"]
       ELSE [button |-> b, kind |-> "off", before |-> Snapshot]

\* applyFilters(), the selections being those the click handler just set
ApplyFilters(selP, selF, selR) ==
  LET term == ToLowerCase(Trim(searchInput))
      ft == FilterTree(tree, collapsed, term, selP, selF, selR)
  IN /\ btnDisabled' = UpdateButtonStates(treeData, selP, selF, selR)
     /\ display' = ft.display
     /\ collapsed' = ft.collapsed

\* click on the preset button of preset p (a disabled button takes no click)
ClickPreset(p) ==
  /\ <<"preset", p>> \in DOMAIN btnActive
  /\ ~btnDisabled[<<"preset", p>>]
  /\ selectedPresets' = Toggle(selectedPresets, p)
  /\ btnActive' = ToggleActive(btnActive, selectedPresets, <<"preset", p>>)
  /\ ApplyFilters(selectedPresets', selectedForks, selectedRunners)
  /\ clickHist' = Clicked(<<"preset", p>>, p \in selectedPresets)
  /\ lastHandler' = "click"
  /\ UNCHANGED <<treeData, tree, selectedForks, selectedRunners, searchInput,
                 searchTerm, searchTimeout, timerTerm>>
  /\ UNCHANGED <<buildVars, walkVars, restVars>>

\* click on the fork button of fork f
ClickFork(f) ==
  /\ <<"fork", f>> \in DOMAIN btnActive
  /\ ~btnDisabled[<<"fork", f>>]
  /\ selectedForks' = Toggle(selectedForks, f)
  /\ btnActive' = ToggleActive(btnActive, selectedForks, <<"fork", f>>)
  /\ ApplyFilters(selectedPresets, selectedForks', selectedRunners)
  /\ clickHist' = Clicked(<<"fork", f>>, f \in selectedForks)
  /\ lastHandler' = "click"
  /\ UNCHANGED <<treeData, tree, selectedPresets, selectedRunners, searchInput,
                 searchTerm, searchTimeout, timerTerm>>
  /\ UNCHANGED <<buildVars, walkVars, restVars>>

\* click on the runner button of test type r
ClickRunner(r) ==
  /\ <<"runner", r>> \in DOMAIN btnActive
  /\ ~btnDisabled[<<"runner", r>>]
  /\ selectedRunners' = Toggle(selectedRunners, r)
  /\ btnActive' = ToggleActive(btnActive, selectedRunners, <<"runner", r>>)
  /\ ApplyFilters(selectedPresets, selectedForks, selectedRunners')
  /\ clickHist' = Clicked(<<"runner", r>>, r \in selectedRunners)
  /\ lastHandler' = "click"
  /\ UNCHANGED <<treeData, tree, selectedPresets, selectedForks, searchInput,
                 searchTerm, searchTimeout, timerTerm>>
  /\ UNCHANGED <<buildVars, walkVars, restVars>>

\* input event of the search box: the text becomes v, the debounce timer restarts
SearchInput(v) ==
  /\ v # searchInput
  /\ searchInput' = v
  /\ searchTerm' = ToLowerCase(Trim(v))
  /\ searchTimeout' = TRUE
  /\ timerTerm' = <<searchTerm'>>
  /\ clickHist' = NULL
  /\ lastHandler' = "input"
  /\ UNCHANGED <<treeData, tree, display, collapsed, selectedPresets, selectedForks,
                 selectedRunners, btnActive, btnDisabled>>
  /\ UNCHANGED <<buildVars, walkVars, restVars>>

\* a timer callback that passes the term its timer was set with
SearchTimerFiresCapturedTerm ==
  /\ searchTimeout
  /\ LET ft == FilterTree(tree, collapsed, timerTerm[1], selectedPresets, selectedForks,
                          selectedRunners)
     IN display' = ft.display /\ collapsed' = ft.collapsed
  /\ searchTimeout' = FALSE
  /\ lastHandler' = "timer"
  /\ UNCHANGED <<treeData, tree, selectedPresets, selectedForks, selectedRunners,
                 btnActive, btnDisabled, searchInput, searchTerm, timerTerm, clickHist>>
  /\ UNCHANGED <<buildVars, walkVars, restVars>>

\* the debounce timer fires: filterTree(state.searchTerm)
SearchTimerFires ==
  /\ searchTimeout
  /\ LET ft == FilterTree(tree, collapsed, searchTerm, selectedPresets, selectedForks,
                          selectedRunners)
     IN display' = ft.display /\ collapsed' = ft.collapsed
  /\ searchTimeout' = FALSE
  /\ lastHandler' = "timer"
  /\ UNCHANGED <<treeData, tree, selectedPresets, selectedForks, selectedRunners,
                 btnActive, btnDisabled, searchInput, searchTerm, timerTerm, clickHist>>
  /\ UNCHANGED <<buildVars, walkVars, restVars>>

\* click on the clear button, which is shown while state.searchTerm is not empty
SearchClear ==
  /\ searchTerm # ""
  /\ searchInput' = ""
  /\ searchTerm' = ""
  /\ LET ft == FilterTree(tree, collapsed, "", selectedPresets, selectedForks,
                          selectedRunners)
     IN display' = ft.display /\ collapsed' = ft.collapsed
  /\ clickHist' = NULL
  /\ lastHandler' = "clear"
  /\ UNCHANGED <<treeData, tree, selectedPresets, selectedForks, selectedRunners,
                 btnActive, btnDisabled, searchTimeout, timerTerm>>
  /\ UNCHANGED <<buildVars, walkVars, restVars>>

\* the keys the pool can put at the three facet levels
PoolKeys(level) == { Split(LoadPool[i].path)[level + 1] : i \in 1..Len(LoadPool) }

\* the buttons a user can find on the page
PresetValues == PoolKeys(1)

ForkValues == PoolKeys(2)

RunnerValues == PoolKeys(3)

Init == FilterInit /\ BuildIdle /\ WalkIdle /\ RestIdle

Next ==
  \/ \E p \in PresetValues : ClickPreset(p)
  \/ \E f \in ForkValues : ClickFork(f)
  \/ \E r \in RunnerValues : ClickRunner(r)
  \/ \E v \in SearchTexts : SearchInput(v)
  \/ SearchTimerFires
  \/ SearchClear

Spec == Init /\ [][Next]_vars

-----------------------------------------------------------------------------
(* Properties of the filter engine *)

\* filterTree was the last thing to set the visibility of the nodes
FilterTreeRan == lastHandler \in {"click", "timer", "clear"}

\* a facet button's click handler ran last
FacetClick == lastHandler = "click"

VisibleNodes == { n \in DOMAIN display : display[n] = "" }

LeafNodes == { n \in DOMAIN tree : tree[n].dataset.type = "testCase" }

InnerNodes == DOMAIN tree \ LeafNodes

IsAncestorOf(a, n) == Len(a) < Len(n) /\ SubSeq(n, 1, Len(a)) = a

AncestorsOfAll(S) == { a \in DOMAIN tree : \E n \in S : IsAncestorOf(a, n) }

\* node n passes every active predicate itself, term being in lower case; its
\* tags are the keys on its path
Satisfies(n, term, selP, selF, selR) ==
  /\ term = "" \/ Includes(ToLowerCase(tree[n].text), term)
  /\ selP = {} \/ n[1] \in selP
  /\ selF = {} \/ (Len(n) >= 2 /\ n[2] \in selF)
  /\ selR = {} \/ (Len(n) >= 3 /\ n[3] \in selR)

Satisfying ==
  LET term == ToLowerCase(searchTerm)
  IN { n \in DOMAIN tree :
       Satisfies(n, term, selectedPresets, selectedForks, selectedRunners) }

NoPredicate ==
  searchTerm = "" /\ selectedPresets = {} /\ selectedForks = {} /\ selectedRunners = {}

\* the visible nodes are those the filter rule names
VisibleAsClaimed ==
  VisibleNodes = IF NoPredicate THEN DOMAIN tree
                 ELSE Satisfying \cup AncestorsOfAll(Satisfying)

\* C1: after filterTree ran with an active predicate, a node is visible if and only
\* if it passes every active predicate itself (label contains the term without
\* regard to case, tags equal the selected values, a missing tag not matching) or
\* is an ancestor of such a node; with no active predicate every node is visible.
C1_VisibleIffMatchOrAncestor == FilterTreeRan => VisibleAsClaimed

\* filterTree ran with a term and a facet active: a leaf is shown through ancestors
\* that do not match themselves, and another node is hidden
C1_Witness ==
  /\ FilterTreeRan
  /\ searchTerm # ""
  /\ selectedPresets \cup selectedForks \cup selectedRunners # {}
  /\ VisibleAsClaimed
  /\ VisibleNodes \cap LeafNodes # {}
  /\ VisibleNodes \ Satisfying # {}
  /\ VisibleNodes # DOMAIN tree

\* the leaves filterTree leaves visible under the given predicates alone
LeavesShownBy(term, selP, selF, selR) ==
  { n \in LeafNodes : FilterTree(tree, collapsed, term, selP, selF, selR).display[n] = "" }

\* the leaf sets of the active predicates, each applied on its own
PerPredicateLeaves ==
  (IF searchTerm # "" THEN { LeavesShownBy(searchTerm, {}, {}, {}) } ELSE {})
    \cup (IF selectedPresets # {} THEN { LeavesShownBy("", selectedPresets, {}, {}) } ELSE {})
    \cup (IF selectedForks # {} THEN { LeavesShownBy("", {}, selectedForks, {}) } ELSE {})
    \cup (IF selectedRunners # {} THEN { LeavesShownBy("", {}, {}, selectedRunners) } ELSE {})

VisibleLeavesIntersect ==
  VisibleNodes \cap LeafNodes = { n \in LeafNodes : \A S \in PerPredicateLeaves : n \in S }

\* C2: after filterTree ran, the visible leaves are the intersection of the leaf
\* sets each active predicate would leave visible on its own.
C2_LeavesAreIntersection == FilterTreeRan => VisibleLeavesIntersect

\* filterTree ran with two predicates that show different leaf sets on their own;
\* the visible leaves are fewer than one of them alone would show, yet not none
C2_Witness ==
  /\ FilterTreeRan
  /\ Cardinality(PerPredicateLeaves) >= 2
  /\ VisibleLeavesIntersect
  /\ VisibleNodes \cap LeafNodes # {}
  /\ \E S \in PerPredicateLeaves : S # VisibleNodes \cap LeafNodes

\* the visible inner nodes are exactly the ancestors of the visible leaves
InnerAreLeafAncestors ==
  VisibleNodes \cap InnerNodes = AncestorsOfAll(VisibleNodes \cap LeafNodes)

\* C3 as stated: after filterTree ran, under every combination of facets and search
\* term, the visible inner nodes are exactly the ancestors of the visible leaves.
C3_InnerAreLeafAncestors == FilterTreeRan => InnerAreLeafAncestors

\* no ancestor of a visible leaf is hidden; without a search term nothing else is
\* visible; with one, the other visible inner nodes match themselves or lie above
\* an inner node that does
InnerVisibleAmended ==
  /\ AncestorsOfAll(VisibleNodes \cap LeafNodes) \subseteq VisibleNodes \cap InnerNodes
  /\ searchTerm = "" => InnerAreLeafAncestors
  /\ \A a \in (VisibleNodes \cap InnerNodes) \ AncestorsOfAll(VisibleNodes \cap LeafNodes) :
       \E m \in Satisfying \cap InnerNodes : m = a \/ IsAncestorOf(a, m)

\* C3, amended: after filterTree ran, every ancestor of a visible leaf is visible;
\* with an empty search term the visible inner nodes are exactly those ancestors;
\* with a search term an inner node that matches by its own label is visible too,
\* with its ancestors, even when no leaf below it is visible.
C3_InnerVisibleAmended == FilterTreeRan => InnerVisibleAmended

\* filterTree ran with a search term that an inner node matches and no leaf below
\* it does: the inner node and its ancestors are visible, its leaves are hidden
C3_Witness ==
  /\ FilterTreeRan
  /\ searchTerm # ""
  /\ \E a \in VisibleNodes \cap InnerNodes :
       /\ a \in Satisfying
       /\ HasParentNode(a)
       /\ \A n \in LeafNodes : IsAncestorOf(a, n) => n \notin VisibleNodes
  /\ InnerVisibleAmended

\* the selection set of a facet
SelectedOf(facet) ==
  CASE facet = "preset" -> selectedPresets
    [] facet = "fork" -> selectedForks
    [] facet = "runner" -> selectedRunners

\* the selection set of a facet in a remembered filter state
SelectedIn(snapshot, facet) ==
  CASE facet = "preset" -> snapshot.selectedPresets
    [] facet = "fork" -> snapshot.selectedForks
    [] facet = "runner" -> snapshot.selectedRunners

Facets == {"preset", "fork", "runner"}

\* C4: each facet holds at most one value; a click on an unselected value makes it
\* the facet's only value, a click on the selected value empties the facet, and a
\* click leaves the other two facets as they were.
C4_SingleSelect ==
  /\ \A facet \in Facets : Cardinality(SelectedOf(facet)) <= 1
  /\ clickHist # NULL =>
       LET b == clickHist.button
       IN /\ clickHist.kind = "on" =>
               b[2] \notin SelectedIn(clickHist.before, b[1]) /\ SelectedOf(b[1]) = {b[2]}
          /\ clickHist.kind = "off" =>
               b[2] \in SelectedIn(clickHist.before, b[1]) /\ SelectedOf(b[1]) = {}
          /\ clickHist.kind = "onoff" => SelectedOf(b[1]) = {}
          /\ \A facet \in Facets \ {b[1]} :
               SelectedOf(facet) = SelectedIn(clickHist.before, facet)

\* a click has just replaced the selected fork by another one, a preset being selected
C4_Witness ==
  /\ lastHandler = "click"
  /\ clickHist.kind = "on" /\ clickHist.button[1] = "fork"
  /\ clickHist.before.selectedForks # {}
  /\ selectedForks = {clickHist.button[2]}
  /\ selectedPresets # {}

\* button b has no manifest entry that combines its value with the values
\* selected in the other two facets
NoCompatibleEntry(b, selP, selF, selR) ==
  ~ \E k \in Triples(treeData) :
      /\ (b[1] = "preset" /\ k[1] = b[2]) \/ (b[1] # "preset" /\ (selP = {} \/ k[1] \in selP))
      /\ (b[1] = "fork" /\ k[2] = b[2]) \/ (b[1] # "fork" /\ (selF = {} \/ k[2] \in selF))
      /\ (b[1] = "runner" /\ k[3] = b[2]) \/ (b[1] # "runner" /\ (selR = {} \/ k[3] \in selR))

\* C5: a click on an unselected facet value followed by a click on the same value
\* leaves the selections, the active and disabled state of every button and the
\* visibility of every node as they are with that facet cleared.
C5_ToggleLaw ==
  (clickHist # NULL /\ clickHist.kind = "onoff") =>
    LET b == clickHist.button
        before == clickHist.before
        selP == IF b[1] = "preset" THEN {} ELSE before.selectedPresets
        selF == IF b[1] = "fork" THEN {} ELSE before.selectedForks
        selR == IF b[1] = "runner" THEN {} ELSE before.selectedRunners
    IN /\ selectedPresets = selP /\ selectedForks = selF /\ selectedRunners = selR
       /\ btnActive = [x \in DOMAIN btnActive |->
                         IF x[1] = b[1] THEN FALSE ELSE before.btnActive[x]]
       /\ btnDisabled = UpdateButtonStates(treeData, selP, selF, selR)
       /\ display = FilterTree(tree, collapsed, searchTerm, selP, selF, selR).display

\* a fork was clicked on and off while another fork had been selected before, a
\* search term and another facet being active; some node is hidden
C5_Witness ==
  /\ lastHandler = "click"
  /\ clickHist.kind = "onoff"
  /\ clickHist.button[1] = "fork" /\ clickHist.before.selectedForks # {}
  /\ selectedPresets \cup selectedRunners # {}
  /\ searchTerm # ""
  /\ VisibleNodes # DOMAIN tree

\* the selections a click leaves behind, read off the click history
SelectionsAfterClick(facet) ==
  IF facet # clickHist.button[1] THEN SelectedIn(clickHist.before, facet)
  ELSE IF clickHist.kind = "on" THEN {clickHist.button[2]} ELSE {}

DisabledAsClaimed ==
  \A b \in DOMAIN btnDisabled :
    btnDisabled[b] <=> NoCompatibleEntry(b, selectedPresets, selectedForks, selectedRunners)

\* C6: after every facet click a button is disabled if and only if the manifest has
\* no (preset, fork, testType) entry combining its value with the values selected
\* in the other two facets, and the selections are those the click handler set.
C6_DisabledIffNoEntry ==
  FacetClick =>
    /\ DisabledAsClaimed
    /\ \A facet \in Facets : SelectedOf(facet) = SelectionsAfterClick(facet)

\* after a click two facets are selected; the third has a disabled and an enabled button
C6_Witness ==
  /\ FacetClick
  /\ DisabledAsClaimed
  /\ selectedForks # {} /\ selectedRunners # {}
  /\ \E b, c \in PresetButtons(treeData) : btnDisabled[b] /\ ~btnDisabled[c]

-----------------------------------------------------------------------------
(* Properties of parseTestPath within buildManifest *)

\* the number of segments of a path: one more than its separators
SegmentCount(p) == 1 + Cardinality({ i \in 1..Len(p) : CharAt(p, i) = PathSep })

\* the test entries of manifest m that were filed for input directory d
FiledFor(m, d) == { pos \in EntryPositions(m) : EntryAt(m, pos).path = d.path }

\* the input directories the loop has gone past
Processed == { testCases[i] : i \in 1..(bmIndex - 1) }

SepPositions(p) == { i \in 1..Len(p) : CharAt(p, i) = PathSep }

\* the position of the k-th separator of a path, 0 for k = 0 and one past the end
\* when the path has fewer
SepAt(p, k) ==
  IF k = 0 THEN 0
  ELSE IF k > Cardinality(SepPositions(p)) THEN Len(p) + 1
  ELSE CHOOSE i \in SepPositions(p) : Cardinality({ j \in SepPositions(p) : j <= i }) = k

\* segment k of a path, counted from 0: what lies between two separators
Segment(p, k) == SubSeq(p, SepAt(p, k) + 1, SepAt(p, k + 1) - 1)

\* C12: for every directory whose path has 7 or more segments, the parsed key's
\* preset, fork, testType, testSuite, config and testCase are segments 1 to 6 as
\* they stand, whatever segment 0 is, and buildManifest files exactly one entry
\* for the directory, under that key and with that name.
C12_KeyIsSegmentsOneToSix ==
  \A d \in Processed :
    SegmentCount(d.path) >= 7 =>
      /\ ParseTestPath(d.path) =
           [preset |-> Segment(d.path, 1), fork |-> Segment(d.path, 2),
            testType |-> Segment(d.path, 3), testSuite |-> Segment(d.path, 4),
            config |-> Segment(d.path, 5), testCase |-> Segment(d.path, 6)]
      /\ Cardinality(FiledFor(manifest, d)) = 1
      /\ \A pos \in FiledFor(manifest, d) :
           /\ pos[1] = <<Segment(d.path, 1), Segment(d.path, 2), Segment(d.path, 3),
                         Segment(d.path, 4)>>
           /\ pos[2] = Segment(d.path, 5)
           /\ EntryAt(manifest, pos).name = Segment(d.path, 6)
           /\ EntryAt(manifest, pos).files = d.files

\* buildManifest returned after two directories that differ in segment 0 only, both
\* filed under one key, and a directory of more than 7 segments
C12_Witness ==
  /\ bmPc = "done"
  /\ \E d1, d2 \in Range(testCases) :
       /\ Segment(d1.path, 0) # Segment(d2.path, 0)
       /\ ParseTestPath(d1.path) # NULL
       /\ ParseTestPath(d1.path) = ParseTestPath(d2.path)
       /\ Cardinality(FiledFor(manifest, d1) \cup FiledFor(manifest, d2)) = 2
  /\ \E d \in Range(testCases) : SegmentCount(d.path) > 7 /\ FiledFor(manifest, d) # {}

\* the input with the directories of fewer than 7 segments taken out
WithoutUnparsable(tcs) == SelectSeq(tcs, LAMBDA d : SegmentCount(d.path) >= 7)

\* C13: a directory whose path does not parse is skipped and the loop goes on: the
\* presets of the returned manifest are those built from the input without the
\* unparsable directories, and a parsable directory that comes after an
\* unparsable one is filed.
C13_SkipDoesNotAbort ==
  bmPc = "done" =>
    /\ manifest.presets = BuildManifest(WithoutUnparsable(testCases)).presets
    /\ \A i, j \in 1..Len(testCases) :
         (i < j /\ SegmentCount(testCases[i].path) < 7 /\ SegmentCount(testCases[j].path) >= 7)
           => FiledFor(manifest, testCases[j]) # {}

\* buildManifest returned after an unparsable directory that stood between two
\* parsable ones
C13_Witness ==
  /\ bmPc = "done"
  /\ Len(testCases) = 3
  /\ SegmentCount(testCases[1].path) >= 7
  /\ SegmentCount(testCases[2].path) < 7
  /\ SegmentCount(testCases[3].path) >= 7
  /\ FiledFor(manifest, testCases[3]) # {}
  /\ manifest.stats.totalTests = 3

-----------------------------------------------------------------------------
(* scripts/prepare.js: updateVersionsFile *)

\* the characters of version strings in the order of their UTF-16 code units
CodeUnits == "-.0123456789abcdefghijklmnopqrstuvwxyz"

CodeOf(c) == CHOOSE i \in 1..Len(CodeUnits) : CharAt(CodeUnits, i) = c

RECURSIVE StrLess(_, _)
\* a < b as the default comparison of Array.prototype.sort orders strings
StrLess(a, b) ==
  IF Len(b) = 0 THEN FALSE
  ELSE IF Len(a) = 0 THEN TRUE
  ELSE IF CharAt(a, 1) = CharAt(b, 1) THEN StrLess(SubSeq(a, 2, Len(a)), SubSeq(b, 2, Len(b)))
  ELSE CodeOf(CharAt(a, 1)) < CodeOf(CharAt(b, 1))

RECURSIVE InsertSorted(_, _)
\* the ascending list q with x put in its place
InsertSorted(q, x) ==
  IF q = <<>> THEN <<x>>
  ELSE IF StrLess(x, Head(q)) THEN <<x>> \o q
  ELSE <<Head(q)>> \o InsertSorted(Tail(q), x)

\* a step that leaves the list in the order it has
KeepOrder(q) == q

RECURSIVE SortStrings(_)
\* Array.prototype.sort() on a list of strings
SortStrings(q) == IF q = <<>> THEN q ELSE InsertSorted(SortStrings(Tail(q)), Head(q))

\* Array.prototype.reverse()
Reverse(q) == [ i \in 1..Len(q) |-> q[Len(q) + 1 - i] ]

\* Array.prototype.includes on a list
ListIncludes(q, x) == \E i \in 1..Len(q) : q[i] = x

\* the versions object updateVersionsFile writes, given what the file held
UpdatedVersions(file, version) ==
  LET versions == IF file # NULL THEN file ELSE [versions |-> <<>>]
  IN IF ~ListIncludes(versions.versions, version)
     THEN [versions |-> Reverse(SortStrings(Append(versions.versions, version)))]
     ELSE versions

\* the versions prepare.js may be run for
VersionPool == {"v1.4.0", "v1.5.0", "v1.6.0-beta.0", "v1.6.0", "v1.10.0", "v1.6.0-alpha.2"}

VersionsInit == versionsFile = NULL /\ updateHist = NULL

\* updateVersionsFile(dataDir, version)
UpdateVersionsFile(version) ==
  /\ versionsFile' = UpdatedVersions(versionsFile, version)
  /\ updateHist' = [version |-> version,
                    before |-> IF versionsFile = NULL THEN <<>> ELSE versionsFile.versions]
  /\ UNCHANGED <<filterVars, buildVars, walkVars, resolverVars, loaderVars, sessionVars,
                 debounceVars, prepVars, treeVars, selectVars>>

InitVersions ==
  VersionsInit /\ FilterIdle /\ BuildIdle /\ WalkIdle /\ ResolverIdle /\ LoaderIdle
  /\ SessionIdle /\ DebounceIdle /\ PrepIdle /\ TreeIdle /\ SelectIdle

NextVersions == \E v \in VersionPool : UpdateVersionsFile(v)

SpecVersions == InitVersions /\ [][NextVersions]_vars

-----------------------------------------------------------------------------
(* scripts/deserialize_missing.js *)

\* most CPU cores of the machine, BATCH_SIZE being their number
MaxCpus == 2

\* most starts of the script on one tree
MaxRuns == 2

\* JavaScript values that an exec error carries in its fields
JNum(n) == [t |-> "number", v |-> n]

JStr(s) == [t |-> "string", v |-> s]

JNull == [t |-> "null"]

JUndefined == [t |-> "undefined"]

\* ToBoolean
Truthy(x) ==
  CASE x.t = "number" -> x.v # 0
    [] x.t = "string" -> x.v # ""
    [] OTHER -> FALSE

\* x === n for a number n
StrictEqualsNumber(x, n) == x.t = "number" /\ x.v = n

\* a || b
JsOr(a, b) == IF Truthy(a) THEN a ELSE b

\* the first position at which pat occurs in s, 0 if there is none
IndexOf(s, pat) ==
  IF Includes(s, pat)
  THEN CHOOSE i \in 1..(Len(s) - Len(pat) + 1) :
         /\ SubSeq(s, i, i + Len(pat) - 1) = pat
         /\ \A j \in 1..(i - 1) : SubSeq(s, j, j + Len(pat) - 1) # pat
  ELSE 0

\* String.prototype.replace(pat, rep) with a string pattern: the first occurrence
ReplaceFirst(s, pat, rep) ==
  LET i == IndexOf(s, pat)
  IN IF i = 0 THEN s
     ELSE SubSeq(s, 1, i - 1) \o rep \o SubSeq(s, i + Len(pat), Len(s))

\* entry.name of a path
BaseName(p) == LET parts == Split(p) IN parts[Len(parts)]

\* the files a tree below testsDir may hold, in the order a depth-first walk meets them
FilePool ==
  << "/d/tests/general/bls/a.ssz_snappy",
     "/d/tests/mainnet/y/b.ssz_snappy",
     "/d/tests/minimal/x/meta.yaml",
     "/d/tests/minimal/x/post.ssz_snappy",
     "/d/tests/minimal/x/pre.ssz_snappy",
     "/d/tests/minimal/x/pre.ssz_snappy.yaml" >>

\* findSSZFiles(dir): the files of the walk whose name has the fixture suffix
FindSSZFiles(files) ==
  SelectSeq(FilePool, LAMBDA p :
    /\ p \in files
    /\ EndsWith(BaseName(p), ".ssz_snappy")
    /\ ~EndsWith(BaseName(p), ".ssz_snappy.yaml"))

\* the yamlFile of an sszFile
YamlFileOf(sszFile) == ReplaceFirst(sszFile, ".ssz_snappy", ".ssz_snappy.yaml")

\* a test for the general directory that looks at the preset of minimal paths only
InGeneralDirMinimalOnly(sszFile) == Includes(sszFile, "/tests/minimal/general/")

\* sszFile.includes('/tests/general/')
InGeneralDir(sszFile) == Includes(sszFile, "/tests/general/")

\* an existence test that finds no file
CompanionNeverExists(files, yamlFile) == FALSE

\* fs.existsSync(yamlFile)
CompanionExists(files, yamlFile) == yamlFile \in files

RECURSIVE FilterFiles(_, _, _)
\* the filter loop over allSszFiles from position i on: filesToProcess and the
\* two counters it leaves
FilterFiles(all, i, files) ==
  IF i > Len(all) THEN [filesToProcess |-> <<>>, skippedGeneral |-> 0, alreadyExists |-> 0]
  ELSE LET rest == FilterFiles(all, i + 1, files)
           sszFile == all[i]
           yamlFile == YamlFileOf(sszFile)
       IN IF InGeneralDir(sszFile)
          THEN [rest EXCEPT !.skippedGeneral = @ + 1]
          ELSE IF CompanionExists(files, yamlFile)
          THEN [rest EXCEPT !.alreadyExists = @ + 1]
          ELSE [rest EXCEPT !.filesToProcess =
                              <<[sszFile |-> sszFile, yamlFile |-> yamlFile]>> \o @]

\* what the promise of execAsync can come to: it resolves when the command exits
\* with code 0, else it rejects with an error that has these fields
Resolved == [kind |-> "resolved"]

Rejected(code, killed) ==
  [kind |-> "rejected", error |-> [code |-> code, exitCode |-> JUndefined, killed |-> killed]]

\* exit code 0, exit code 2, exit code 1, the timeout, a signal from outside, too
\* much output
ExecOutcomes ==
  << Resolved,
     Rejected(JNum(2), FALSE),
     Rejected(JNum(1), FALSE),
     Rejected(JNull, TRUE),
     Rejected(JNull, FALSE),
     Rejected(JStr("ERR_CHILD_PROCESS_STDIO_MAXBUFFER"), TRUE) >>

\* a classification that takes every exit code but 0 for an error
DeserializeSingleFileNoSkip(outcome) ==
  IF outcome.kind = "resolved" THEN [status |-> "success"]
  ELSE [status |-> "error", error |-> outcome.error]

\* deserializeSingleFile: the object its promise resolves with
DeserializeSingleFile(outcome) ==
  IF outcome.kind = "resolved" THEN [status |-> "success"]
  ELSE LET error == outcome.error
           exitCode == JsOr(JsOr(error.code, error.exitCode),
                            IF error.killed THEN JNull ELSE JNum(1))
       IN IF StrictEqualsNumber(exitCode, 2) THEN [status |-> "skipped"]
          ELSE [status |-> "error", error |-> error]

\* the way a subprocess ended: exit code 0, exit code 2, or anything else
EndingOf(outcome) ==
  IF outcome.kind = "resolved" THEN "exit0"
  ELSE IF outcome.error.code.t = "number" /\ outcome.error.code.v = 2 THEN "exit2"
  ELSE "other"

\* whether the decoder script has written the companion file when its subprocess
\* ends: it has on exit code 0, it has not on exit code 2, and a subprocess that
\* fails or is killed may have written it or not
CompanionWritten(outcome) ==
  CASE EndingOf(outcome) = "exit0" -> {TRUE}
    [] EndingOf(outcome) = "exit2" -> {FALSE}
    [] OTHER -> {TRUE, FALSE}

\* Math.ceil(n / d)
CeilDiv(n, d) == (n + d - 1) \div d

\* totalBatches
TotalBatches == CeilDiv(Len(filesToProcess), batchSize)

\* batches that start one file after one another
BatchOverlapping ==
  LET start == batchIdx
      end == IF start + batchSize < Len(filesToProcess) THEN start + batchSize
             ELSE Len(filesToProcess)
  IN SubSeq(filesToProcess, start + 1, end)

\* filesToProcess.slice(start, end) of the batch at batchIdx
Batch ==
  LET start == batchIdx * batchSize
      end == IF start + batchSize < Len(filesToProcess) THEN start + batchSize
             ELSE Len(filesToProcess)
  IN SubSeq(filesToProcess, start + 1, end)

\* the number of results with the given status
CountStatus(rs, status) == Cardinality({ i \in 1..Len(rs) : rs[i].status = status })

\* the fixture files of the pool
Fixtures == { FilePool[i] : i \in { j \in 1..Len(FilePool) : EndsWith(FilePool[j], ".ssz_snappy") } }

ResolverInit ==
  /\ disk \in SUBSET Range(FilePool)
  /\ batchSize \in 1..MaxCpus
  /\ runNo = 0 /\ resPc = "idle"
  /\ allSszFiles = <<>> /\ filesToProcess = <<>>
  /\ skippedGeneral = 0 /\ alreadyExists = 0
  /\ successCount = 0 /\ skippedCount = 0 /\ errorCount = 0
  /\ batchIdx = 0 /\ settled = <<>>
  /\ decodeLog = [k \in (1..MaxRuns) \X Fixtures |-> <<>>]

\* the script is started: deserializeMissingSSZFiles up to the first batch
ResolverStart ==
  /\ resPc \in {"idle", "done"}
  /\ runNo < MaxRuns
  /\ runNo' = runNo + 1
  /\ allSszFiles' = FindSSZFiles(disk)
  /\ LET f == FilterFiles(allSszFiles', 1, disk)
     IN /\ filesToProcess' = f.filesToProcess
        /\ skippedGeneral' = f.skippedGeneral
        /\ alreadyExists' = f.alreadyExists
        /\ resPc' = IF Len(f.filesToProcess) = 0 THEN "done" ELSE "launch"
  /\ successCount' = 0 /\ skippedCount' = 0 /\ errorCount' = 0
  /\ batchIdx' = 0
  /\ settled' = <<>>
  /\ UNCHANGED <<disk, batchSize, decodeLog>>
  /\ UNCHANGED <<filterVars, buildVars, walkVars, versionVars, loaderVars, sessionVars,
                 debounceVars, prepVars, treeVars, selectVars>>

\* batch.map(... deserializeSingleFile ...): a subprocess is started for every file
\* of the batch
LaunchBatch ==
  /\ resPc = "launch"
  /\ settled' = [i \in 1..Len(Batch) |-> NULL]
  /\ decodeLog' = [k \in DOMAIN decodeLog |->
                    IF k[1] = runNo /\ \E i \in 1..Len(Batch) : Batch[i].sszFile = k[2]
                    THEN Append(decodeLog[k], "pending") ELSE decodeLog[k]]
  /\ resPc' = "await"
  /\ UNCHANGED <<disk, batchSize, runNo, allSszFiles, filesToProcess, skippedGeneral,
                 alreadyExists, successCount, skippedCount, errorCount, batchIdx>>
  /\ UNCHANGED <<filterVars, buildVars, walkVars, versionVars, loaderVars, sessionVars,
                 debounceVars, prepVars, treeVars, selectVars>>

\* the subprocess of the i-th file of the batch ends
DecodeSettles(i, outcome) ==
  /\ resPc = "await"
  /\ i \in 1..Len(settled)
  /\ settled[i] = NULL
  /\ settled' = [settled EXCEPT ![i] = DeserializeSingleFile(outcome)]
  /\ \E written \in CompanionWritten(outcome) :
       disk' = IF written THEN disk \cup {Batch[i].yamlFile} ELSE disk
  /\ decodeLog' = [decodeLog EXCEPT ![<<runNo, Batch[i].sszFile>>] =
                     [@ EXCEPT ![Len(@)] = EndingOf(outcome)]]
  /\ UNCHANGED <<batchSize, runNo, resPc, allSszFiles, filesToProcess, skippedGeneral,
                 alreadyExists, successCount, skippedCount, errorCount, batchIdx>>
  /\ UNCHANGED <<filterVars, buildVars, walkVars, versionVars, loaderVars, sessionVars,
                 debounceVars, prepVars, treeVars, selectVars>>

\* a join that returns as soon as one decode of the batch has settled
CountBatchFirstSettled ==
  /\ resPc = "await"
  /\ \E i \in 1..Len(settled) : settled[i] # NULL
  /\ LET done == { i \in 1..Len(settled) : settled[i] # NULL }
     IN /\ successCount' = successCount
                           + Cardinality({ i \in done : settled[i].status = "success" })
        /\ skippedCount' = skippedCount
                           + Cardinality({ i \in done : settled[i].status = "skipped" })
        /\ errorCount' = errorCount
                         + Cardinality({ i \in done : settled[i].status = "error" })
  /\ batchIdx' = batchIdx + 1
  /\ resPc' = IF batchIdx + 1 < TotalBatches THEN "launch" ELSE "done"
  /\ settled' = <<>>
  /\ UNCHANGED <<disk, batchSize, runNo, allSszFiles, filesToProcess, skippedGeneral,
                 alreadyExists, decodeLog>>
  /\ UNCHANGED <<filterVars, buildVars, walkVars, versionVars, loaderVars, sessionVars,
                 debounceVars, prepVars, treeVars, selectVars>>

\* await Promise.all(promises) returns: the results are counted and the loop goes
\* to the next batch or ends
CountBatch ==
  /\ resPc = "await"
  /\ \A i \in 1..Len(settled) : settled[i] # NULL
  /\ successCount' = successCount + CountStatus(settled, "success")
  /\ skippedCount' = skippedCount + CountStatus(settled, "skipped")
  /\ errorCount' = errorCount + CountStatus(settled, "error")
  /\ batchIdx' = batchIdx + 1
  /\ resPc' = IF batchIdx + 1 < TotalBatches THEN "launch" ELSE "done"
  /\ settled' = <<>>
  /\ UNCHANGED <<disk, batchSize, runNo, allSszFiles, filesToProcess, skippedGeneral,
                 alreadyExists, decodeLog>>
  /\ UNCHANGED <<filterVars, buildVars, walkVars, versionVars, loaderVars, sessionVars,
                 debounceVars, prepVars, treeVars, selectVars>>

InitResolver ==
  ResolverInit /\ FilterIdle /\ BuildIdle /\ WalkIdle /\ VersionsIdle /\ LoaderIdle
  /\ SessionIdle /\ DebounceIdle /\ PrepIdle /\ TreeIdle /\ SelectIdle

NextResolver ==
  \/ ResolverStart
  \/ LaunchBatch
  \/ \E i \in 1..MaxCpus, o \in 1..Len(ExecOutcomes) : DecodeSettles(i, ExecOutcomes[o])
  \/ CountBatch

SpecResolver == InitResolver /\ [][NextResolver]_vars

-----------------------------------------------------------------------------
(* Properties of the companion resolver *)

\* the calls of deserializeSingleFile for file f in run r
CallsIn(r, f) == decodeLog[<<r, f>>]

\* C15 as stated: whatever the subprocesses of the first run came to, a later run
\* on the same tree calls the decoder for no file.
C15_SecondRunDecodesNothing ==
  \A r \in 2..runNo : \A f \in Fixtures : CallsIn(r, f) = <<>>

\* run r has ended
RunEnded(r) == r < runNo \/ (r = runNo /\ resPc = "done")

\* C15, amended: a later run calls the decoder for no file whose subprocess exited
\* with code 0 in the run before, nor for a file the run before left out; it calls
\* the decoder again for every file that was skipped in the run before, and for
\* every file whose call failed or timed out unless that call left a companion
\* file behind. After a run in which every subprocess exited with code 0 the
\* next run calls the decoder for no file.
C15_SecondRunRetriesUnsatisfied ==
  \A r \in 2..runNo : \A f \in Fixtures :
    /\ CallsIn(r, f) # <<>> => (CallsIn(r - 1, f) # <<>> /\ CallsIn(r - 1, f)[1] # "exit0")
    /\ (RunEnded(r) /\ CallsIn(r - 1, f) = <<"exit2">>) => CallsIn(r, f) # <<>>
    /\ (RunEnded(r) /\ CallsIn(r - 1, f) = <<"other">> /\ (f \o ".yaml") \notin disk)
         => CallsIn(r, f) # <<>>

\* the second run has ended: it left out a file decoded with exit code 0 in the
\* first run and called the decoder again for a file that was skipped and for one
\* that failed
C15_Witness ==
  /\ runNo = 2 /\ resPc = "done"
  /\ \E f \in Fixtures : CallsIn(1, f) = <<"exit0">> /\ CallsIn(2, f) = <<>>
  /\ \E f \in Fixtures : CallsIn(1, f) = <<"exit2">> /\ CallsIn(2, f) # <<>>
  /\ \E f \in Fixtures : CallsIn(1, f) = <<"other">> /\ CallsIn(2, f) # <<>>

\* the files on disk whose name ends with the fixture suffix
Enumerated == { p \in disk : EndsWith(p, ".ssz_snappy") }

\* the files of a sequence of { sszFile, yamlFile } pairs
WorkSet == { filesToProcess[i].sszFile : i \in 1..Len(filesToProcess) }

\* the filter loop has run and no subprocess of this run has changed the disk yet
JustFiltered ==
  /\ runNo >= 1
  /\ (resPc = "launch" /\ batchIdx = 0) \/ (resPc = "done" /\ filesToProcess = <<>>)

StatusFor(ending) ==
  CASE ending = "exit0" -> "success"
    [] ending = "exit2" -> "skipped"
    [] OTHER -> "error"

\* the files whose call in the running run ended in the given way
EndedWith(ending) ==
  { f \in Fixtures : CallsIn(runNo, f) # <<>> /\ CallsIn(runNo, f)[1] = ending }

\* C17: every call of the decoder gets exactly one result: success for exit code 0,
\* skipped for exit code 2, error for any other exit code, for the timeout and for
\* every other failure; deserializeSingleFile always resolves with one of the
\* three, and a skipped call is not counted in errorCount.
C17_OneResultPerCall ==
  /\ resPc = "await" =>
       \A i \in 1..Len(settled) :
         settled[i] # NULL =>
           /\ settled[i].status \in {"success", "skipped", "error"}
           /\ settled[i].status = StatusFor(CallsIn(runNo, Batch[i].sszFile)[1])
  /\ (runNo >= 1 /\ resPc \in {"launch", "done"}) =>
       /\ successCount = Cardinality(EndedWith("exit0"))
       /\ skippedCount = Cardinality(EndedWith("exit2"))
       /\ errorCount = Cardinality(EndedWith("other"))

\* a run has ended in which one subprocess exited with code 2 and one was killed
\* by the timeout or failed otherwise
C17_Witness ==
  /\ runNo = 1 /\ resPc = "done"
  /\ skippedCount = 1 /\ errorCount = 1 /\ successCount = 1
  /\ Cardinality(EndedWith("exit2")) = 1

\* C18: in one run the decoder is called exactly once for every file of the work
\* set and for no other file, whatever the other calls come to; every call is
\* counted in one of the three counters, which add up to the size of the work set
\* when the run ends.
C18_EachFileOnce ==
  runNo >= 1 =>
    /\ \A f \in Fixtures : Len(CallsIn(runNo, f)) <= 1
    /\ \A f \in Fixtures \ WorkSet : CallsIn(runNo, f) = <<>>
    /\ resPc \in {"launch", "done"} =>
         successCount + skippedCount + errorCount =
           Cardinality({ f \in Fixtures : CallsIn(runNo, f) # <<>> })
    /\ resPc = "done" =>
         /\ \A f \in WorkSet : Len(CallsIn(runNo, f)) = 1 /\ CallsIn(runNo, f)[1] # "pending"
         /\ successCount + skippedCount + errorCount = Len(filesToProcess)

\* a run of two batches has ended whose first batch had a failed call
C18_Witness ==
  /\ runNo = 1 /\ resPc = "done"
  /\ batchIdx = 2 /\ batchSize = 2
  /\ Len(filesToProcess) = 3
  /\ errorCount >= 1
  /\ CallsIn(1, filesToProcess[1].sszFile) = <<"other">>
  /\ successCount + skippedCount + errorCount = 3

\* ==========================================================================
\* js/main.js: onTestSelect, the progressive loading of one test case
\* ==========================================================================

\* The file names a test case directory of the reference tests can list.
FileNamePool ==
  <<"meta.yaml", "post.ssz_snappy.yaml", "pre.ssz_snappy", "proof.ssz_snappy",
    "proof.ssz_snappy.yaml">>

\* The sub-lists of q, in the order of q.
RECURSIVE SubLists(_)
SubLists(q) ==
  IF q = <<>> THEN {<<>>}
  ELSE LET rest == SubLists(Tail(q))
       IN  rest \cup {<<Head(q)>> \o r : r \in rest}

\* The record a file's promise resolves with.
FileData(name) == [name |-> name, isBinary |-> EndsWith(name, ".ssz_snappy")]

\* loadTestFilesProgressive: one promise per file name, all started at once.
LoadTestFilesProgressive(files) == [n \in Range(files) |-> "pending"]

\* updateFileBox(name, file, yaml): the display unit called name is given the
\* file and, when there is one, its companion.
UpdateFileBox(name, file, yaml) == [name |-> name, file |-> file, yaml |-> yaml]

\* for (const filePromise of filePromises) ... sszWithYaml.add(sszName)
SszWithYaml(names) ==
  {ReplaceFirst(n, ".yaml", "") : n \in {m \in names : EndsWith(m, ".ssz_snappy.yaml")}}

\* The arrival of a companion is treated as that of a primary file.
OnFileLoadedCompanionAsPrimary(fileData, fileMap, withYaml) ==
  IF fileData.name \in withYaml
  THEN IF (fileData.name \o ".yaml") \in DOMAIN fileMap
       THEN <<UpdateFileBox(fileData.name, fileData, fileMap[fileData.name \o ".yaml"])>>
       ELSE <<>>
  ELSE <<UpdateFileBox(fileData.name, fileData, NULL)>>

\* A primary file is shown when it arrives, with or without its companion.
OnFileLoadedFirstStandalone(fileData, fileMap, withYaml) ==
  IF EndsWith(fileData.name, ".ssz_snappy.yaml")
  THEN LET sszName == ReplaceFirst(fileData.name, ".yaml", "")
       IN  IF sszName \in DOMAIN fileMap
           THEN <<UpdateFileBox(sszName, fileMap[sszName], fileData)>>
           ELSE <<>>
  ELSE IF (fileData.name \o ".yaml") \in DOMAIN fileMap
       THEN <<UpdateFileBox(fileData.name, fileData, fileMap[fileData.name \o ".yaml"])>>
       ELSE <<UpdateFileBox(fileData.name, fileData, NULL)>>

\* The body of filePromise.promise.then after loadedFileMap.set: the calls of
\* updateFileBox it makes, given the map that already holds fileData.
OnFileLoaded(fileData, fileMap, withYaml) ==
  IF EndsWith(fileData.name, ".ssz_snappy.yaml")
  THEN LET sszName == ReplaceFirst(fileData.name, ".yaml", "")
       IN  IF sszName \in DOMAIN fileMap
           THEN <<UpdateFileBox(sszName, fileMap[sszName], fileData)>>
           ELSE <<>>
  ELSE IF fileData.name \in withYaml
       THEN IF (fileData.name \o ".yaml") \in DOMAIN fileMap
            THEN <<UpdateFileBox(fileData.name, fileData, fileMap[fileData.name \o ".yaml"])>>
            ELSE <<>>
       ELSE <<UpdateFileBox(fileData.name, fileData, NULL)>>

\* enableDownloadTest(testCase, files): the download button is enabled for files.
EnableDownloadTest(files) == [enabled |-> TRUE, files |-> files]

\* A test case whose files are not cached is about to be selected.
LoaderInit ==
  /\ testFiles \in SubLists(FileNamePool)
  /\ sszWithYaml = {} /\ filePromises = EmptyObj
  /\ loadedFileMap = EmptyObj /\ allLoadedFiles = <<>> /\ fileBoxUpdates = <<>>
  /\ loadPc = "idle"
  /\ downloadTest = [enabled |-> FALSE, files |-> <<>>]

\* onTestSelect up to its await: the cache misses, the skeleton is shown, every
\* fetch is started and the fixtures with a companion are identified.
OnTestSelect ==
  /\ loadPc = "idle"
  /\ filePromises' = LoadTestFilesProgressive(testFiles)
  /\ allLoadedFiles' = <<>>
  /\ loadedFileMap' = EmptyObj
  /\ sszWithYaml' = SszWithYaml(Range(testFiles))
  /\ loadPc' = "loading"
  /\ UNCHANGED <<testFiles, fileBoxUpdates, downloadTest>>
  /\ UNCHANGED <<filterVars, buildVars, walkVars, versionVars, resolverVars, sessionVars,
                 debounceVars, prepVars, treeVars, selectVars>>

\* filePromise.promise.then(fileData => ...)
FileLoaded(name) ==
  /\ loadPc = "loading"
  /\ name \in DOMAIN filePromises /\ filePromises[name] = "pending"
  /\ LET fileData == FileData(name)
         fileMap  == Put(loadedFileMap, name, fileData)
     IN  /\ allLoadedFiles' = Append(allLoadedFiles, fileData)
         /\ loadedFileMap' = fileMap
         /\ fileBoxUpdates' = fileBoxUpdates \o OnFileLoaded(fileData, fileMap, sszWithYaml)
  /\ filePromises' = [filePromises EXCEPT ![name] = "fulfilled"]
  /\ UNCHANGED <<testFiles, sszWithYaml, loadPc, downloadTest>>
  /\ UNCHANGED <<filterVars, buildVars, walkVars, versionVars, resolverVars, sessionVars,
                 debounceVars, prepVars, treeVars, selectVars>>

\* .catch(error => console.error(...))
FileFailed(name) ==
  /\ loadPc = "loading"
  /\ name \in DOMAIN filePromises /\ filePromises[name] = "pending"
  /\ filePromises' = [filePromises EXCEPT ![name] = "rejected"]
  /\ UNCHANGED <<testFiles, sszWithYaml, loadedFileMap, allLoadedFiles, fileBoxUpdates,
                 loadPc, downloadTest>>
  /\ UNCHANGED <<filterVars, buildVars, walkVars, versionVars, resolverVars, sessionVars,
                 debounceVars, prepVars, treeVars, selectVars>>

\* The continuation runs without waiting for the loads to settle.
AllSettledEarly ==
  /\ loadPc = "loading"
  /\ loadPc' = "done"
  /\ downloadTest' = EnableDownloadTest(allLoadedFiles)
  /\ UNCHANGED <<testFiles, sszWithYaml, filePromises, loadedFileMap, allLoadedFiles,
                 fileBoxUpdates>>
  /\ UNCHANGED <<filterVars, buildVars, walkVars, versionVars, resolverVars, sessionVars,
                 debounceVars, prepVars, treeVars, selectVars>>

\* await Promise.all(loadPromises) returns: the files are cached and the
\* download button is enabled.
AllSettled ==
  /\ loadPc = "loading"
  /\ \A n \in DOMAIN filePromises : filePromises[n] # "pending"
  /\ loadPc' = "done"
  /\ downloadTest' = EnableDownloadTest(allLoadedFiles)
  /\ UNCHANGED <<testFiles, sszWithYaml, filePromises, loadedFileMap, allLoadedFiles,
                 fileBoxUpdates>>
  /\ UNCHANGED <<filterVars, buildVars, walkVars, versionVars, resolverVars, sessionVars,
                 debounceVars, prepVars, treeVars, selectVars>>

InitLoader ==
  LoaderInit /\ FilterIdle /\ BuildIdle /\ WalkIdle /\ VersionsIdle /\ ResolverIdle
  /\ SessionIdle /\ DebounceIdle /\ PrepIdle /\ TreeIdle /\ SelectIdle

NextLoader ==
  \/ OnTestSelect
  \/ \E name \in Range(FileNamePool) : FileLoaded(name)
  \/ \E name \in Range(FileNamePool) : FileFailed(name)
  \/ AllSettled

SpecLoader == InitLoader /\ [][NextLoader]_vars

\* ==========================================================================
\* Properties of the progressive loader
\* ==========================================================================

CompanionOf(x) == x \o ".yaml"

\* The fixtures of the selected test case that are listed with their companion.
Pairs ==
  {x \in Range(testFiles) : EndsWith(x, ".ssz_snappy") /\ CompanionOf(x) \in Range(testFiles)}

Arrived(n) == n \in DOMAIN filePromises /\ filePromises[n] = "fulfilled"

UpdatesNamed(n) == {i \in DOMAIN fileBoxUpdates : fileBoxUpdates[i].name = n}

ArrivalIndex(n) == CHOOSE i \in DOMAIN allLoadedFiles : allLoadedFiles[i].name = n

UpdatedOnceWithBoth(x) ==
  /\ Cardinality(UpdatesNamed(x)) = 1
  /\ \A i \in UpdatesNamed(x) :
       /\ fileBoxUpdates[i].file = FileData(x)
       /\ fileBoxUpdates[i].yaml = FileData(CompanionOf(x))

\* C19: when both files of a pair have loaded, in either order of arrival, the
\* loader has made exactly one update of the display unit of the fixture, with
\* the fixture and its companion, and it never updates a display unit that is
\* named after the companion.
C19_OneUpdateWithBoth ==
  \A x \in Pairs :
    /\ (Arrived(x) /\ Arrived(CompanionOf(x))) => UpdatedOnceWithBoth(x)
    /\ UpdatesNamed(CompanionOf(x)) = {}

\* Both files of a pair have loaded, the companion before the fixture.
C19_Witness ==
  \E x \in Pairs :
    /\ Arrived(x) /\ Arrived(CompanionOf(x))
    /\ ArrivalIndex(CompanionOf(x)) < ArrivalIndex(x)
    /\ loadPc = "done"

\* The only file of the pair of x that has arrived, if there is exactly one.
OnlyOneArrived(x) == Arrived(x) # Arrived(CompanionOf(x))

FirstArrived(x) == IF Arrived(x) THEN x ELSE CompanionOf(x)

\* The file f is shown on its own in a display unit.
RenderedStandalone(f) ==
  \E i \in DOMAIN fileBoxUpdates :
    fileBoxUpdates[i].file = FileData(f) /\ fileBoxUpdates[i].yaml = NULL

\* C20 as stated: the file of a pair that arrives first is rendered standalone
\* as soon as it arrives, and the arrival of the second updates the same display
\* unit to offer both views.
C20_FirstRendersStandalone ==
  \A x \in Pairs :
    /\ OnlyOneArrived(x) => RenderedStandalone(FirstArrived(x))
    /\ (Arrived(x) /\ Arrived(CompanionOf(x))) =>
         /\ UpdatesNamed(x) # {}
         /\ \A i \in UpdatesNamed(x) :
              (\A j \in UpdatesNamed(x) : j <= i) =>
                fileBoxUpdates[i].yaml = FileData(CompanionOf(x))

\* C20, amended: the file of a pair that arrives first is not rendered when it
\* arrives, no display unit is updated for the pair until the second file has
\* arrived, and that arrival updates the display unit of the fixture, once, to
\* offer both views.
C20_PairWaitsForSecond ==
  \A x \in Pairs :
    /\ ~(Arrived(x) /\ Arrived(CompanionOf(x))) =>
         UpdatesNamed(x) \cup UpdatesNamed(CompanionOf(x)) = {}
    /\ (Arrived(x) /\ Arrived(CompanionOf(x))) =>
         /\ Cardinality(UpdatesNamed(x)) = 1
         /\ \A i \in UpdatesNamed(x) : fileBoxUpdates[i].yaml = FileData(CompanionOf(x))

\* The fixture of a pair has arrived and its companion is still on its way.
C20_Witness ==
  \E x \in Pairs :
    /\ Arrived(x) /\ filePromises[CompanionOf(x)] = "pending"
    /\ \E n \in Range(testFiles) : n \notin {x, CompanionOf(x)} /\ Arrived(n)

\* The files of the selected test case that are not companions.
PrimaryFiles == {n \in Range(testFiles) : ~EndsWith(n, ".ssz_snappy.yaml")}

\* C21: once every load has settled, every file that is not a companion and
\* whose fetch succeeded has had its display unit updated, whichever other
\* fetches failed; a fixture whose companion failed to load or is not listed
\* is rendered all the same.
C21_FailureLeavesSiblingsRendered ==
  loadPc = "done" =>
    \A n \in PrimaryFiles : Arrived(n) => UpdatesNamed(n) # {}

\* The continuation of an await whose promise has settled is run: the job
\* queue of the event loop is served.
SpecLoaderFair == SpecLoader /\ WF_vars(AllSettled)

EveryLoadSettled ==
  loadPc = "loading" /\ \A n \in DOMAIN filePromises : filePromises[n] # "pending"

\* The download button is enabled only with every load settled, for exactly
\* the records of the files that loaded.
DownloadOnlyWhenSettled ==
  downloadTest.enabled =>
    /\ \A n \in Range(testFiles) : filePromises[n] # "pending"
    /\ Range(downloadTest.files) = {FileData(n) : n \in {m \in Range(testFiles) : Arrived(m)}}
    /\ Len(downloadTest.files) = Cardinality({m \in Range(testFiles) : Arrived(m)})

\* C22: the download-all action is enabled only after every requested file's
\* load has settled, with exactly the records of the files that loaded, and
\* once all loads have settled it is eventually enabled, failures or not.
C22_DownloadAfterAllSettle ==
  /\ []DownloadOnlyWhenSettled
  /\ (EveryLoadSettled ~> downloadTest.enabled)

\* The button is enabled after a load in which one file failed and one loaded.
C22_Witness ==
  /\ downloadTest.enabled
  /\ \E n \in Range(testFiles) : filePromises[n] = "rejected"
  /\ downloadTest.files # <<>>

\* ==========================================================================
\* js/main.js: the session: version selector, manifest loads and the cache
\* of loaded test cases
\* ==========================================================================

MaxSelects == 3
MaxChanges == 2
MaxInflight == 2

\* state.versions.versions
Versions == {"v1.5.0", "v1.6.0"}

\* The test cases the tree offers (testPath.testPath).
TestPaths == {"minimal/phase0/a", "minimal/phase0/b"}

\* The cache is keyed by the path alone.
CacheKeyPathOnly(version, path) == path

\* const cacheKey = `${state.currentVersion}:${fullPath}`
CacheKey(version, path) == version \o ":" \o path

\* The part of the state a failed operation is to leave alone.
SessionState ==
  [currentVersion |-> currentVersion, manifest |-> manifestOf, tree |-> treeOf,
   cache |-> loadedSuites]

RemoveAt(q, i) == SubSeq(q, 1, i - 1) \o SubSeq(q, i + 1, Len(q))

\* init() has loaded versions.json and the manifest of the chosen version.
SessionInit ==
  /\ currentVersion \in Versions
  /\ manifestOf = currentVersion /\ treeOf = currentVersion
  /\ loadedSuites = EmptyObj /\ testLoads = <<>> /\ manifestLoads = <<>>
  /\ errorShown = FALSE /\ selectLog = <<>> /\ sinceChange = {} /\ everLoaded = {}
  /\ changeHist = [phase |-> "none", n |-> 0, before |-> SessionState]

SelectLogEntry(path, served, from) ==
  [version |-> currentVersion, path |-> path, served |-> served, from |-> from,
   loadedBefore |-> <<currentVersion, path>> \in everLoaded,
   loadedSinceChange |-> <<currentVersion, path>> \in sinceChange]

\* onTestSelect up to its return or its first await: a cached case is shown at
\* once, otherwise the files are fetched for the current version.
SelectTest(path) ==
  /\ treeOf # "none"
  /\ Len(selectLog) < MaxSelects
  /\ LET cacheKey == CacheKey(currentVersion, path)
     IN  IF cacheKey \in DOMAIN loadedSuites
         THEN /\ selectLog' =
                   Append(selectLog,
                          SelectLogEntry(path, "cache", loadedSuites[cacheKey].version))
              /\ UNCHANGED testLoads
         ELSE /\ Len(testLoads) < MaxInflight
              /\ testLoads' =
                   Append(testLoads,
                          [cacheKey |-> cacheKey, version |-> currentVersion, path |-> path])
              /\ selectLog' = Append(selectLog, SelectLogEntry(path, "fetch", currentVersion))
  /\ changeHist' = [changeHist EXCEPT !.phase = "none"]
  /\ UNCHANGED <<currentVersion, manifestOf, treeOf, loadedSuites, manifestLoads, errorShown,
                 sinceChange, everLoaded>>
  /\ UNCHANGED <<filterVars, buildVars, walkVars, versionVars, resolverVars, loaderVars,
                 debounceVars, prepVars, treeVars, selectVars>>

\* onTestSelect after await Promise.all: state.loadedSuites.set(cacheKey, allLoadedFiles)
LoadCompletes(i) ==
  /\ i \in DOMAIN testLoads
  /\ LET load == testLoads[i]
     IN  /\ loadedSuites' =
               Put(loadedSuites, load.cacheKey, [version |-> load.version, path |-> load.path])
         /\ sinceChange' = sinceChange \cup {<<load.version, load.path>>}
         /\ everLoaded' = everLoaded \cup {<<load.version, load.path>>}
  /\ testLoads' = RemoveAt(testLoads, i)
  /\ changeHist' = [changeHist EXCEPT !.phase = "none"]
  /\ UNCHANGED <<currentVersion, manifestOf, treeOf, manifestLoads, errorShown, selectLog>>
  /\ UNCHANGED <<filterVars, buildVars, walkVars, versionVars, resolverVars, loaderVars,
                 debounceVars, prepVars, treeVars, selectVars>>

\* versionSelect 'change' handler up to the await inside loadVersionData.
ChangeVersion(newVersion) ==
  /\ newVersion \in Versions \ {currentVersion}
  /\ changeHist.n < MaxChanges
  /\ changeHist' = [phase |-> "pending", n |-> changeHist.n + 1, before |-> SessionState]
  /\ currentVersion' = newVersion
  /\ loadedSuites' = EmptyObj
  /\ sinceChange' = {}
  /\ manifestLoads' = Append(manifestLoads, newVersion)
  /\ UNCHANGED <<manifestOf, treeOf, testLoads, errorShown, selectLog, everLoaded>>
  /\ UNCHANGED <<filterVars, buildVars, walkVars, versionVars, resolverVars, loaderVars,
                 debounceVars, prepVars, treeVars, selectVars>>

\* loadVersionData after loadManifest resolves: the manifest is stored and the
\* tree rebuilt from it.
ManifestLoaded(i) ==
  /\ i \in DOMAIN manifestLoads
  /\ manifestOf' = manifestLoads[i]
  /\ treeOf' = manifestLoads[i]
  /\ manifestLoads' = RemoveAt(manifestLoads, i)
  /\ changeHist' = [changeHist EXCEPT !.phase = "none"]
  /\ UNCHANGED <<currentVersion, loadedSuites, testLoads, errorShown, selectLog, sinceChange,
                 everLoaded>>
  /\ UNCHANGED <<filterVars, buildVars, walkVars, versionVars, resolverVars, loaderVars,
                 debounceVars, prepVars, treeVars, selectVars>>

\* loadVersionData: loadManifest rejects, the catch block shows the error.
ManifestFailed(i) ==
  /\ i \in DOMAIN manifestLoads
  /\ errorShown' = TRUE
  /\ manifestLoads' = RemoveAt(manifestLoads, i)
  /\ changeHist' =
       [changeHist EXCEPT !.phase =
          IF changeHist.phase = "pending" /\ Len(manifestLoads) = 1 THEN "failed" ELSE "none"]
  /\ UNCHANGED <<currentVersion, manifestOf, treeOf, loadedSuites, testLoads, selectLog,
                 sinceChange, everLoaded>>
  /\ UNCHANGED <<filterVars, buildVars, walkVars, versionVars, resolverVars, loaderVars,
                 debounceVars, prepVars, treeVars, selectVars>>

InitSession ==
  SessionInit /\ FilterIdle /\ BuildIdle /\ WalkIdle /\ VersionsIdle /\ ResolverIdle
  /\ LoaderIdle /\ DebounceIdle /\ PrepIdle /\ TreeIdle /\ SelectIdle

NextSession ==
  \/ \E path \in TestPaths : SelectTest(path)
  \/ \E i \in 1..MaxInflight : LoadCompletes(i)
  \/ \E newVersion \in Versions : ChangeVersion(newVersion)
  \/ \E i \in 1..MaxChanges : ManifestLoaded(i)
  \/ \E i \in 1..MaxChanges : ManifestFailed(i)

SpecSession == InitSession /\ [][NextSession]_vars

\* ==========================================================================
\* Properties of the session
\* ==========================================================================

\* No cached entry is shown under another version than it was loaded for.
ServedForOwnVersion ==
  \A k \in DOMAIN selectLog :
    selectLog[k].served = "cache" => selectLog[k].from = selectLog[k].version

\* C23 as stated: once the load of a case has completed, every later selection
\* of the case under the same version in the session is served from the cache
\* without a fetch, and no entry is served for another version than its own.
C23_EveryReselectFromCache ==
  /\ \A k \in DOMAIN selectLog : selectLog[k].loadedBefore => selectLog[k].served = "cache"
  /\ ServedForOwnVersion

\* C23, amended: once the load of a case has completed, every later selection
\* of the case under the same version is served from the cache without a fetch
\* as long as the version has not been changed since; a version change empties
\* the cache, and no entry is served for another version than its own.
C23_ReselectFromCacheUntilChange ==
  /\ \A k \in DOMAIN selectLog :
       selectLog[k].loadedSinceChange => selectLog[k].served = "cache"
  /\ changeHist.phase = "pending" => loadedSuites = EmptyObj
  /\ ServedForOwnVersion

\* After a version change a case is loaded, selected again and served from
\* the cache.
C23_Witness ==
  /\ changeHist.n >= 1
  /\ \E k \in DOMAIN selectLog :
       selectLog[k].served = "cache" /\ selectLog[k].loadedSinceChange

\* C26: when the manifest load started by picking another version fails, the
\* error is shown and the current version, the manifest, the tree and the
\* cache are what they were before the version was picked.
C26_FailedChangeLeavesState ==
  changeHist.phase = "failed" =>
    /\ errorShown
    /\ SessionState = changeHist.before

\* ==========================================================================
\* js/main.js: setupSearch, the debounce of the search box
\* ==========================================================================

MaxKeys == 3
MaxTime == 6

\* setTimeout(..., 300), in ticks of 100 ms
DebounceTicks == 3

\* clearTimeout(id): the timer with that id, if it is still set, is dropped.
ClearTimeout(ts, id) == {t \in ts : t.id # id}

\* setTimeout(f, delay) with the fresh id: the timer is due after delay.
SetTimeout(ts, id, delay) == ts \cup {[id |-> id, due |-> now + delay]}

\* No timer is due: a timer that is due runs before anything else happens.
NoTimerDue == \A t \in timers : t.due > now

DebounceInit ==
  /\ now = 0 /\ boxValue = "" /\ stateTerm = "" /\ timerRef = 0 /\ timers = {}
  /\ searchLog = <<>>

KeyEvents == {k \in DOMAIN searchLog : searchLog[k].kind = "key"}

\* The input handler sets a timer without clearing the one before.
KeyInputNoCancel(v) ==
  /\ v # boxValue
  /\ Cardinality(KeyEvents) < MaxKeys
  /\ NoTimerDue
  /\ boxValue' = v
  /\ stateTerm' = ToLowerCase(Trim(v))
  /\ LET id == Cardinality(KeyEvents) + 1
     IN  /\ timers' = SetTimeout(timers, id, DebounceTicks)
         /\ timerRef' = id
  /\ searchLog' = Append(searchLog, [kind |-> "key", at |-> now, term |-> stateTerm'])
  /\ UNCHANGED now
  /\ UNCHANGED <<filterVars, buildVars, walkVars, versionVars, resolverVars, loaderVars,
                 sessionVars, prepVars, treeVars, selectVars>>

\* 'input' handler of the search box: the term is stored, the pending timer is
\* cleared and a new one is set.
KeyInput(v) ==
  /\ v # boxValue
  /\ Cardinality(KeyEvents) < MaxKeys
  /\ NoTimerDue
  /\ boxValue' = v
  /\ stateTerm' = ToLowerCase(Trim(v))
  /\ LET id == Cardinality(KeyEvents) + 1
     IN  /\ timers' = SetTimeout(ClearTimeout(timers, timerRef), id, DebounceTicks)
         /\ timerRef' = id
  /\ searchLog' = Append(searchLog, [kind |-> "key", at |-> now, term |-> stateTerm'])
  /\ UNCHANGED now
  /\ UNCHANGED <<filterVars, buildVars, walkVars, versionVars, resolverVars, loaderVars,
                 sessionVars, prepVars, treeVars, selectVars>>

\* The timer callback: filterTree(state.searchTerm)
TimerFires(id) ==
  /\ \E t \in timers : t.id = id /\ t.due <= now
  /\ timers' = ClearTimeout(timers, id)
  /\ searchLog' = Append(searchLog, [kind |-> "timer", at |-> now, term |-> stateTerm])
  /\ UNCHANGED <<now, boxValue, stateTerm, timerRef>>
  /\ UNCHANGED <<filterVars, buildVars, walkVars, versionVars, resolverVars, loaderVars,
                 sessionVars, prepVars, treeVars, selectVars>>

\* 'click' handler of the clear button: filterTree('') at once; the timer is
\* left as it is.
ClearClick ==
  /\ stateTerm # ""
  /\ NoTimerDue
  /\ boxValue' = "" /\ stateTerm' = ""
  /\ searchLog' = Append(searchLog, [kind |-> "clear", at |-> now, term |-> ""])
  /\ UNCHANGED <<now, timerRef, timers>>
  /\ UNCHANGED <<filterVars, buildVars, walkVars, versionVars, resolverVars, loaderVars,
                 sessionVars, prepVars, treeVars, selectVars>>

\* 100 ms pass.
Tick ==
  /\ now < MaxTime
  /\ NoTimerDue
  /\ now' = now + 1
  /\ UNCHANGED <<boxValue, stateTerm, timerRef, timers, searchLog>>
  /\ UNCHANGED <<filterVars, buildVars, walkVars, versionVars, resolverVars, loaderVars,
                 sessionVars, prepVars, treeVars, selectVars>>

InitDebounce ==
  DebounceInit /\ FilterIdle /\ BuildIdle /\ WalkIdle /\ VersionsIdle /\ ResolverIdle
  /\ LoaderIdle /\ SessionIdle /\ PrepIdle /\ TreeIdle /\ SelectIdle

NextDebounce ==
  \/ \E v \in SearchTexts : KeyInput(v)
  \/ \E id \in 1..MaxKeys : TimerFires(id)
  \/ ClearClick
  \/ Tick

SpecDebounce == InitDebounce /\ [][NextDebounce]_vars

\* ==========================================================================
\* Properties of the debounce
\* ==========================================================================

TimerEvents == {k \in DOMAIN searchLog : searchLog[k].kind = "timer"}

\* The keystroke after keystroke i, or 0.
NextKey(i) ==
  IF \E k \in KeyEvents : k > i THEN CHOOSE k \in KeyEvents : k > i /\ \A m \in KeyEvents : m > i => k <= m
  ELSE 0

\* Keystroke i is the last of its burst: no keystroke follows it within the
\* debounce interval.
EndsBurst(i) ==
  NextKey(i) = 0 \/ searchLog[NextKey(i)].at - searchLog[i].at >= DebounceTicks

\* The recomputations by the timer between keystroke i and the next keystroke.
TimerCallsAfter(i) ==
  {k \in TimerEvents : k > i /\ (NextKey(i) = 0 \/ k < NextKey(i))}

\* The interval after keystroke i is over: the clock has passed it or a later
\* keystroke is in the log.
IntervalOver(i) == NextKey(i) # 0 \/ now > searchLog[i].at + DebounceTicks

ClearedAfter(i, k) == \E c \in DOMAIN searchLog : i < c /\ c < k /\ searchLog[c].kind = "clear"

\* C24: a burst of keystrokes, each less than the debounce interval after the
\* one before, causes exactly one recomputation by the timer: none between the
\* keystrokes of the burst, one after the interval of the last keystroke has
\* elapsed, with the term of the last keystroke; and at most one timer is
\* pending at any time, the one the last keystroke set.
C24_OneRecomputationPerBurst ==
  /\ Cardinality(timers) <= 1
  /\ \A t \in timers : t.id = timerRef
  /\ \A i \in KeyEvents :
       IF EndsBurst(i)
       THEN /\ Cardinality(TimerCallsAfter(i)) <= 1
            /\ IntervalOver(i) => Cardinality(TimerCallsAfter(i)) = 1
            /\ \A k \in TimerCallsAfter(i) :
                 /\ searchLog[k].at >= searchLog[i].at + DebounceTicks
                 /\ ~ClearedAfter(i, k) => searchLog[k].term = searchLog[i].term
       ELSE TimerCallsAfter(i) = {}

\* Two keystrokes less than the interval apart, then the one recomputation.
C24_Witness ==
  \E i, j \in KeyEvents, k \in TimerEvents :
    /\ j = NextKey(i) /\ k > j
    /\ searchLog[j].at > searchLog[i].at
    /\ ~EndsBurst(i)
    /\ searchLog[k].term = searchLog[j].term /\ searchLog[k].term # ""

\* ==========================================================================
\* scripts/prepare.js: main, one run of the offline preparation
\* ==========================================================================

\* const PRESETS = ['general', 'minimal', 'mainnet']
PRESETS == <<"general", "minimal", "mainnet">>

\* The versions.json files a run can find: none, or one an earlier run wrote.
RegistryPool ==
  {NULL} \cup {UpdatedVersions(UpdatedVersions(NULL, v), w) : v, w \in {"v1.5.0", "v1.6.0"}}

\* main() has read its arguments, the version has the required form and the
\* version directory is about to be filled.
PrepInit ==
  /\ prepPc = "download"
  /\ prepVersion \in {"v1.5.0", "v1.6.0", "v1.6.0-beta.0"}
  /\ presetIdx = 1 /\ extractedPresets = {}
  /\ indexBuilt = FALSE /\ manifestWritten = FALSE /\ exitStatus = -1 /\ failedStep = ""
  /\ versionsFile \in RegistryPool
  /\ versionsAtStart = versionsFile
  /\ updateHist = NULL

\* A step throws: the catch block of main reports and calls process.exit(1).
PrepThrows(step) ==
  /\ prepPc = step
  /\ prepPc' = "exited" /\ exitStatus' = 1 /\ failedStep' = step
  /\ UNCHANGED <<prepVersion, presetIdx, extractedPresets, indexBuilt, manifestWritten,
                 versionsAtStart>>
  /\ UNCHANGED <<filterVars, buildVars, walkVars, versionVars, resolverVars, loaderVars,
                 sessionVars, debounceVars, treeVars, selectVars>>

\* downloadAndExtractTests: await downloadFile(url, dest) resolves
DownloadFile ==
  /\ prepPc = "download"
  /\ prepPc' = "extract"
  /\ UNCHANGED <<prepVersion, presetIdx, extractedPresets, indexBuilt, manifestWritten,
                 exitStatus, failedStep, versionsAtStart>>
  /\ UNCHANGED <<filterVars, buildVars, walkVars, versionVars, resolverVars, loaderVars,
                 sessionVars, debounceVars, treeVars, selectVars>>

\* The manifest is written although a preset is still to come.
ExtractArchiveOneIsEnough ==
  /\ prepPc = "extract"
  /\ extractedPresets' = extractedPresets \cup {PRESETS[presetIdx]}
  /\ presetIdx' = presetIdx + 1
  /\ prepPc' = "index"
  /\ UNCHANGED <<prepVersion, indexBuilt, manifestWritten, exitStatus, failedStep,
                 versionsAtStart>>
  /\ UNCHANGED <<filterVars, buildVars, walkVars, versionVars, resolverVars, loaderVars,
                 sessionVars, debounceVars, treeVars, selectVars>>

\* downloadAndExtractTests: tar extracts the archive, the archive is removed,
\* and the loop goes on to the next preset or returns.
ExtractArchive ==
  /\ prepPc = "extract"
  /\ extractedPresets' = extractedPresets \cup {PRESETS[presetIdx]}
  /\ presetIdx' = presetIdx + 1
  /\ prepPc' = IF presetIdx < Len(PRESETS) THEN "download" ELSE "index"
  /\ UNCHANGED <<prepVersion, indexBuilt, manifestWritten, exitStatus, failedStep,
                 versionsAtStart>>
  /\ UNCHANGED <<filterVars, buildVars, walkVars, versionVars, resolverVars, loaderVars,
                 sessionVars, debounceVars, treeVars, selectVars>>

\* main: findTestCases(outputDir) and buildManifest(testCases) return
BuildIndex ==
  /\ prepPc = "index"
  /\ indexBuilt' = TRUE
  /\ prepPc' = "manifest"
  /\ UNCHANGED <<prepVersion, presetIdx, extractedPresets, manifestWritten, exitStatus,
                 failedStep, versionsAtStart>>
  /\ UNCHANGED <<filterVars, buildVars, walkVars, versionVars, resolverVars, loaderVars,
                 sessionVars, debounceVars, treeVars, selectVars>>

\* main: fs.writeFileSync(manifestPath, ...)
WriteManifest ==
  /\ prepPc = "manifest"
  /\ manifestWritten' = TRUE
  /\ prepPc' = "versions"
  /\ UNCHANGED <<prepVersion, presetIdx, extractedPresets, indexBuilt, exitStatus, failedStep,
                 versionsAtStart>>
  /\ UNCHANGED <<filterVars, buildVars, walkVars, versionVars, resolverVars, loaderVars,
                 sessionVars, debounceVars, treeVars, selectVars>>

\* main: updateVersionsFile(dataDir, version) returns and main runs to its end
UpdateVersionsAndFinish ==
  /\ prepPc = "versions"
  /\ versionsFile' = UpdatedVersions(versionsFile, prepVersion)
  /\ updateHist' = [version |-> prepVersion,
                    before |-> IF versionsFile = NULL THEN <<>> ELSE versionsFile.versions]
  /\ prepPc' = "exited" /\ exitStatus' = 0
  /\ UNCHANGED <<prepVersion, presetIdx, extractedPresets, indexBuilt, manifestWritten,
                 failedStep, versionsAtStart>>
  /\ UNCHANGED <<filterVars, buildVars, walkVars, resolverVars, loaderVars, sessionVars,
                 debounceVars, treeVars, selectVars>>

\* The steps of main that can throw.
PrepSteps == {"download", "extract", "index", "manifest", "versions"}

InitPrep ==
  PrepInit /\ FilterIdle /\ BuildIdle /\ WalkIdle /\ ResolverIdle /\ LoaderIdle
  /\ SessionIdle /\ DebounceIdle /\ TreeIdle /\ SelectIdle

NextPrep ==
  \/ DownloadFile
  \/ ExtractArchive
  \/ BuildIndex
  \/ WriteManifest
  \/ UpdateVersionsAndFinish
  \/ \E step \in PrepSteps : PrepThrows(step)

SpecPrep == InitPrep /\ [][NextPrep]_vars

\* ==========================================================================
\* Properties of the offline preparation
\* ==========================================================================

AllExtracted == extractedPresets = Range(PRESETS)

MaxForks == 3

\* const forkOrder = [...]
ForkOrder == <<"phase0", "altair", "bellatrix", "capella", "deneb", "electra", "fulu">>

\* forkOrder.indexOf(a), counted from 0, -1 when a is not in the list
ForkIndexOf(a) ==
  IF ListIncludes(ForkOrder, a)
  THEN (CHOOSE i \in 1..Len(ForkOrder) : ForkOrder[i] = a) - 1
  ELSE -1

\* a.localeCompare(b) for names of lower-case letters and digits
LocaleCompare(a, b) == IF a = b THEN 0 ELSE IF StrLess(a, b) THEN -1 ELSE 1

\* The canonical list is not consulted.
CompareForksAlphabetical(a, b) ==
  LET aIsEip == StartsWith(a, "eip")
      bIsEip == StartsWith(b, "eip")
  IN  IF aIsEip /\ ~bIsEip THEN 1
      ELSE IF ~aIsEip /\ bIsEip THEN -1
      ELSE LocaleCompare(a, b)

\* The comparator of buildForkNodes and of buildForkFilters.
CompareForks(a, b) ==
  LET aIsEip == StartsWith(a, "eip")
      bIsEip == StartsWith(b, "eip")
      aIndex == ForkIndexOf(a)
      bIndex == ForkIndexOf(b)
  IN  IF aIsEip /\ ~bIsEip THEN 1
      ELSE IF ~aIsEip /\ bIsEip THEN -1
      ELSE IF aIndex # -1 /\ bIndex # -1 THEN aIndex - bIndex
      ELSE IF aIndex # -1 THEN -1
      ELSE IF bIndex # -1 THEN 1
      ELSE LocaleCompare(a, b)

LastOf(q) == q[Len(q)]

FrontOf(q) == SubSeq(q, 1, Len(q) - 1)

\* Array.prototype.sort with the comparator: x is put behind the elements it
\* does not sort before (the sort is stable).
RECURSIVE InsertFork(_, _)
InsertFork(q, x) ==
  IF q = <<>> THEN <<x>>
  ELSE IF CompareForks(x, LastOf(q)) < 0
       THEN Append(InsertFork(FrontOf(q), x), LastOf(q))
       ELSE Append(q, x)

RECURSIVE SortForks(_)
SortForks(q) == IF q = <<>> THEN <<>> ELSE InsertFork(SortForks(FrontOf(q)), LastOf(q))

\* Fork names a manifest can hold: in the canonical list, outside it, and eip.
ForkNamePool == {"phase0", "deneb", "fulu", "gloas", "whisk", "eip6800", "eip7441"}

ForksInit ==
  /\ forkKeys \in SeqsOver(ForkNamePool, MaxForks)
  /\ sortedForks = <<>>
  /\ treeManifest = NULL /\ treeNodes = <<>> /\ treePc = "idle" /\ toggleLog = <<>>

\* const sortedForks = Object.entries(forks).sort(...)
SortForkEntries ==
  /\ forkKeys # <<>> /\ sortedForks = <<>>
  /\ sortedForks' = SortForks(forkKeys)
  /\ UNCHANGED <<forkKeys, treeManifest, treeNodes, treePc, toggleLog>>
  /\ UNCHANGED <<filterVars, buildVars, walkVars, versionVars, resolverVars, loaderVars,
                 sessionVars, debounceVars, prepVars, selectVars>>

InitForks ==
  /\ ForksInit /\ FilterIdle /\ BuildIdle /\ WalkIdle /\ VersionsIdle /\ ResolverIdle
  /\ LoaderIdle /\ SessionIdle /\ DebounceIdle /\ PrepIdle /\ SelectIdle

NextForks == SortForkEntries

SpecForks == InitForks /\ [][NextForks]_vars

\* ==========================================================================
\* Properties of the fork order
\* ==========================================================================

IsEip(a) == StartsWith(a, "eip")

IsCanonical(a) == \E i \in 1..Len(ForkOrder) : ForkOrder[i] = a

CanonicalPos(a) == CHOOSE i \in 1..Len(ForkOrder) : ForkOrder[i] = a

\* a comes before b by the rules of the claim.
ComesBefore(a, b) ==
  IF IsEip(a) /\ IsEip(b) THEN StrLess(a, b)
  ELSE IF IsEip(a) # IsEip(b) THEN IsEip(b)
  ELSE IF IsCanonical(a) /\ IsCanonical(b) THEN CanonicalPos(a) < CanonicalPos(b)
  ELSE IF IsCanonical(a) # IsCanonical(b) THEN IsCanonical(a)
  ELSE StrLess(a, b)

\* The comparator is a strict total order on the names.
StrictTotalOrderOn(names) ==
  /\ \A a, b \in names :
       /\ (a = b) <=> (CompareForks(a, b) = 0)
       /\ (CompareForks(a, b) < 0) <=> (CompareForks(b, a) > 0)
  /\ \A a, b, c \in names :
       (CompareForks(a, b) < 0 /\ CompareForks(b, c) < 0) => CompareForks(a, c) < 0

\* C27: the sorted forks are the given forks in the order of the rules (eip
\* names last, canonical names first in canonical order, the others
\* alphabetical), the comparator is a strict total order on them, and every
\* order of the manifest keys gives the same result.
C27_ForkOrder ==
  sortedForks # <<>> =>
    /\ Len(sortedForks) = Len(forkKeys) /\ Range(sortedForks) = Range(forkKeys)
    /\ \A i, j \in 1..Len(sortedForks) : i < j => ComesBefore(sortedForks[i], sortedForks[j])
    /\ \A a, b \in Range(forkKeys) : a # b => (CompareForks(a, b) < 0 <=> ComesBefore(a, b))
    /\ StrictTotalOrderOn(Range(forkKeys))
    /\ \A q \in Orderings(forkKeys) : SortForks(q) = sortedForks

\* An eip fork, a fork outside the canonical list and a canonical fork, given
\* in that order, were sorted.
C27_Witness ==
  /\ Len(sortedForks) = 3
  /\ IsEip(forkKeys[1]) /\ ~IsEip(forkKeys[2]) /\ ~IsCanonical(forkKeys[2])
  /\ IsCanonical(forkKeys[3])
\* ==========================================================================
(* js/tree.js: buildTree, buildForkNodes .. buildTestCaseNodes, createTreeNode,
   translated function by function; node objects and elements are nested *)

\* Object.entries(obj): the keys of obj in the one order the object holds them
KeysOf(obj) ==
  CHOOSE q \in [1..Cardinality(DOMAIN obj) -> DOMAIN obj] : Range(q) = DOMAIN obj

\* test case nodes whose path record carries the entry's name as its path
BuildTestCaseNodesNameAsPath(preset, fork, testType, testSuite, config, tests) ==
  [ i \in 1..Len(tests) |->
    [ label |-> tests[i].name, type |-> "testCase",
      preset |-> preset, fork |-> fork, runner |-> testType,
      path |-> [ preset |-> preset, fork |-> fork, testType |-> testType,
                 testSuite |-> testSuite, config |-> config,
                 testCase |-> tests[i].name, testPath |-> tests[i].name,
                 files |-> tests[i].files ] ] ]

\* buildTestCaseNodes
BuildTestCaseNodes(preset, fork, testType, testSuite, config, tests) ==
  [ i \in 1..Len(tests) |->
    [ label |-> tests[i].name, type |-> "testCase",
      preset |-> preset, fork |-> fork, runner |-> testType,
      path |-> [ preset |-> preset, fork |-> fork, testType |-> testType,
                 testSuite |-> testSuite, config |-> config,
                 testCase |-> tests[i].name, testPath |-> tests[i].path,
                 files |-> tests[i].files ] ] ]

\* config nodes tagged with the suite where the runner belongs
BuildConfigNodesSuiteAsRunner(preset, fork, testType, testSuite, configs) ==
  LET ks == KeysOf(configs) IN
  [ i \in 1..Len(ks) |->
    [ label |-> ks[i], type |-> "config",
      preset |-> preset, fork |-> fork, runner |-> testSuite,
      children |-> BuildTestCaseNodes(preset, fork, testType, testSuite, ks[i],
                                      configs[ks[i]].tests) ] ]

\* buildConfigNodes
BuildConfigNodes(preset, fork, testType, testSuite, configs) ==
  LET ks == KeysOf(configs) IN
  [ i \in 1..Len(ks) |->
    [ label |-> ks[i], type |-> "config",
      preset |-> preset, fork |-> fork, runner |-> testType,
      children |-> BuildTestCaseNodes(preset, fork, testType, testSuite, ks[i],
                                      configs[ks[i]].tests) ] ]

\* buildTestSuiteNodes
BuildTestSuiteNodes(preset, fork, testType, testSuites) ==
  LET ks == KeysOf(testSuites) IN
  [ i \in 1..Len(ks) |->
    [ label |-> ks[i], type |-> "testSuite",
      preset |-> preset, fork |-> fork, runner |-> testType,
      count |-> testSuites[ks[i]].testCount,
      children |-> BuildConfigNodes(preset, fork, testType, ks[i],
                                    testSuites[ks[i]].configs) ] ]

\* buildTestTypeNodes
BuildTestTypeNodes(preset, fork, testTypes) ==
  LET ks == KeysOf(testTypes) IN
  [ i \in 1..Len(ks) |->
    [ label |-> ks[i], type |-> "testType",
      preset |-> preset, fork |-> fork, runner |-> ks[i],
      children |-> BuildTestSuiteNodes(preset, fork, ks[i], testTypes[ks[i]].testSuites) ] ]

\* buildForkNodes: one node per fork, in the order of the comparator
BuildForkNodes(preset, forks) ==
  LET ks == SortForks(KeysOf(forks)) IN
  [ i \in 1..Len(ks) |->
    [ label |-> ks[i], type |-> "fork", preset |-> preset, fork |-> ks[i],
      children |-> BuildTestTypeNodes(preset, ks[i], forks[ks[i]].testTypes) ] ]

\* the node object buildTree hands to createTreeNode for each preset
PresetNodes(m) ==
  LET ks == KeysOf(m.presets) IN
  [ i \in 1..Len(ks) |->
    [ label |-> ks[i], type |-> "preset", preset |-> ks[i],
      children |-> BuildForkNodes(ks[i], m.presets[ks[i]].forks) ] ]

\* nodeData.children && nodeData.children.length > 0
HasChildren(nodeData) == "children" \in DOMAIN nodeData /\ Len(nodeData.children) > 0

\* createTreeNode: the element with its data attributes, its label text, the path its
\* click hands to onTestSelectCallback (leaves only) and its child elements
RECURSIVE CreateTreeNode(_)
CreateTreeNode(nodeData) ==
  [ dataset |-> Dataset(nodeData),
    text |-> nodeData.label,
    select |-> IF ~HasChildren(nodeData) /\ "path" \in DOMAIN nodeData
               THEN nodeData.path ELSE NULL,
    children |-> IF HasChildren(nodeData)
                 THEN [ i \in 1..Len(nodeData.children) |->
                        CreateTreeNode(nodeData.children[i]) ]
                 ELSE <<>> ]

\* directories of a second and a third fork under one preset
TreeDirPool ==
  DirPool \cup
  { Dir("tests/minimal/eip7441/sanity/blocks/py/c0", <<"data.yaml">>),
    Dir("tests/minimal/altair/sanity/blocks/py/c0", <<"meta.yaml">>) }

TreeInit ==
  /\ treeManifest \in { BuildManifest(q) : q \in SeqsOver(TreeDirPool, MaxDirs) }
  /\ treeNodes = <<>> /\ treePc = "idle"
  /\ forkKeys = <<>> /\ sortedForks = <<>> /\ toggleLog = <<>>

\* buildTree(manifest, onTestSelect): the tree container is emptied and refilled
BuildTreeNodes ==
  /\ treePc = "idle"
  /\ treeNodes' = [ i \in 1..Len(PresetNodes(treeManifest)) |->
                    CreateTreeNode(PresetNodes(treeManifest)[i]) ]
  /\ treePc' = "built"
  /\ UNCHANGED <<forkKeys, sortedForks, treeManifest, toggleLog>>
  /\ UNCHANGED <<filterVars, buildVars, walkVars, versionVars, resolverVars, loaderVars,
                 sessionVars, debounceVars, prepVars, selectVars>>

InitTree ==
  /\ TreeInit /\ FilterIdle /\ BuildIdle /\ WalkIdle /\ VersionsIdle /\ ResolverIdle
  /\ LoaderIdle /\ SessionIdle /\ DebounceIdle /\ PrepIdle /\ SelectIdle

NextTree == BuildTreeNodes

SpecTree == InitTree /\ [][NextTree]_vars

\* --------------------------------------------------------------------------
(* Reading the built tree *)

\* the positions of all elements below a list of elements, as index paths
RECURSIVE IndexPaths(_)
IndexPaths(els) ==
  UNION { {<<i>>} \cup { <<i>> \o p : p \in IndexPaths(els[i].children) } :
          i \in 1..Len(els) }

RECURSIVE ElementAt(_, _)
ElementAt(els, ip) ==
  IF Len(ip) = 1 THEN els[ip[1]] ELSE ElementAt(els[ip[1]].children, Tail(ip))

\* the label texts from the root down to the element at ip
LabelPath(els, ip) == [ d \in 1..Len(ip) |-> ElementAt(els, SubSeq(ip, 1, d)).text ]

TreePaths == IndexPaths(treeNodes)

PathsAtDepth(d) == { ip \in TreePaths : Len(ip) = d }

LevelTypes == <<"preset", "fork", "testType", "testSuite", "config", "testCase">>

\* the keys the manifest holds at an inner level
LevelKeys(m, d) ==
  CASE d = 1 -> PresetIds(m)
    [] d = 2 -> ForkIds(m)
    [] d = 3 -> Triples(m)
    [] d = 4 -> SuiteKeys(m)
    [] d = 5 -> ConfigIds(m)

\* the path record a leaf owes to a test entry under the config key c
PathRecordOf(c, entry) ==
  [ preset |-> c[1], fork |-> c[2], testType |-> c[3], testSuite |-> c[4],
    config |-> c[5], testCase |-> entry.name, testPath |-> entry.path,
    files |-> entry.files ]

InnerLevelMirrorsManifest(d) ==
  /\ { LabelPath(treeNodes, ip) : ip \in PathsAtDepth(d) } = LevelKeys(treeManifest, d)
  /\ Cardinality(PathsAtDepth(d)) = Cardinality(LevelKeys(treeManifest, d))
  /\ \A ip \in PathsAtDepth(d) :
       LET el == ElementAt(treeNodes, ip) IN
       /\ el.dataset.type = LevelTypes[d]
       /\ el.children # <<>>
       /\ el.select = NULL

LeavesMirrorEntries ==
  \A ip \in PathsAtDepth(5) :
    LET c == LabelPath(treeNodes, ip)
        el == ElementAt(treeNodes, ip)
        tests == SuiteAt(treeManifest, SubSeq(c, 1, 4)).configs[c[5]].tests
    IN /\ Len(el.children) = Len(tests)
       /\ \A i \in 1..Len(tests) :
            /\ el.children[i].children = <<>>
            /\ el.children[i].dataset.type = "testCase"
            /\ el.children[i].select = PathRecordOf(c, tests[i])

\* C28: buildTree makes exactly one leaf per test entry of the manifest and exactly one
\* inner node per key at each of the levels preset, fork, testType, testSuite, config,
\* nested as in the manifest; every leaf's path record is the five keys of its ancestors
\* plus the entry's name, original path and file list
C28_TreeMirrorsManifest ==
  treePc = "built" =>
    /\ \A d \in 1..5 : InnerLevelMirrorsManifest(d)
    /\ LeavesMirrorEntries
    /\ Cardinality(PathsAtDepth(6)) = Cardinality(EntryPositions(treeManifest))
    /\ \A ip \in TreePaths : Len(ip) <= 6

C28_Witness ==
  /\ treePc = "built"
  /\ Cardinality(PathsAtDepth(1)) = 2
  /\ \E ip \in PathsAtDepth(5) : Len(ElementAt(treeNodes, ip).children) = 2
  /\ \E ip \in PathsAtDepth(6) :
       ElementAt(treeNodes, ip).select.testPath # ElementAt(treeNodes, ip).select.testCase

\* --------------------------------------------------------------------------
FacetTags == {"preset", "fork", "runner"}

TagsOf(el) == FacetTags \cap DOMAIN el.dataset

IsProperPrefix(ip, jp) == Len(ip) < Len(jp) /\ SubSeq(jp, 1, Len(ip)) = ip

\* C29: a preset node has only a preset tag, a fork node has preset and fork tags, every
\* testType, testSuite, config and testCase node has preset, fork and runner tags, and
\* each tag of a node has the same value on all its descendants
C29_TagsByPosition ==
  treePc = "built" =>
    /\ \A ip \in TreePaths :
         TagsOf(ElementAt(treeNodes, ip)) =
           CASE Len(ip) = 1 -> {"preset"}
             [] Len(ip) = 2 -> {"preset", "fork"}
             [] OTHER -> FacetTags
    /\ \A ip \in TreePaths : \A jp \in TreePaths :
         IsProperPrefix(ip, jp) =>
           \A t \in TagsOf(ElementAt(treeNodes, ip)) :
             ElementAt(treeNodes, jp).dataset[t] = ElementAt(treeNodes, ip).dataset[t]

C29_Witness ==
  /\ treePc = "built"
  /\ \E ip \in PathsAtDepth(1) : Len(ElementAt(treeNodes, ip).children) = 2
  /\ \E ip \in PathsAtDepth(6) :
       ElementAt(treeNodes, ip).dataset.runner # ElementAt(treeNodes, ip).dataset.label

\* ==========================================================================
(* js/tree.js: the filter engine together with the user's clicks on node labels *)

\* the label of node id is on screen: the node and its ancestors are displayed and
\* every ancestor is expanded
LabelOnScreen(id) ==
  /\ display[id] = ""
  /\ \A a \in DOMAIN tree :
       IsAncestorOf(a, id) => display[a] = "" /\ ~collapsed[a]

\* click on the label of a node with children: toggleNode(container, icon)
ToggleNode(id) ==
  /\ id \in DOMAIN collapsed
  /\ LabelOnScreen(id)
  /\ Len(toggleLog) < MaxToggles
  /\ collapsed' = [collapsed EXCEPT ![id] = ~collapsed[id]]
  /\ toggleLog' = Append(toggleLog, <<id, ~collapsed[id]>>)
  /\ clickHist' = NULL
  /\ lastHandler' = "toggle"
  /\ UNCHANGED <<treeData, tree, display, selectedPresets, selectedForks, selectedRunners,
                 btnActive, btnDisabled, searchInput, searchTerm, searchTimeout, timerTerm>>
  /\ UNCHANGED <<buildVars, walkVars, versionVars, resolverVars, loaderVars, sessionVars,
                 debounceVars, prepVars, selectVars>>
  /\ UNCHANGED <<forkKeys, sortedForks, treeManifest, treeNodes, treePc>>

\* the manifests of one test case each
ExpandInputs == { <<LoadPool[i]>> : i \in 1..Len(LoadPool) }

\* the nodes with children these manifests have
ToggleIds ==
  UNION { { n \in NodeIds(BuildManifest(q)) : Len(n) <= Len(LevelTypes) - 1 } :
          q \in ExpandInputs }

InitExpand == Init /\ treeData \in { BuildManifest(q) : q \in ExpandInputs }

NextExpand ==
  \/ Next
  \/ \E id \in ToggleIds : ToggleNode(id)

SpecExpand == InitExpand /\ [][NextExpand]_vars

\* the ancestors of node n, read off its position
ProperAncestors(n) == { SubSeq(n, 1, d) : d \in 1..(Len(n) - 1) }

VisibleLeaves == LeafNodes \cap VisibleNodes

\* the user collapsed node a by the last click on its label
CollapsedByUser(a) ==
  \E i \in 1..Len(toggleLog) :
    /\ toggleLog[i] = <<a, TRUE>>
    /\ \A j \in (i + 1)..Len(toggleLog) : toggleLog[j][1] # a

\* C30: after a filter pass with at least one active predicate, every ancestor of every
\* visible leaf is expanded, whatever its expansion state was before the pass
C30_AncestorsOfVisibleLeavesExpanded ==
  (FilterTreeRan /\ ~NoPredicate) =>
    \A leaf \in VisibleLeaves : \A a \in ProperAncestors(leaf) : ~collapsed[a]

C30_Witness ==
  /\ FilterTreeRan /\ ~NoPredicate
  /\ \E leaf \in VisibleLeaves : \E a \in ProperAncestors(leaf) : CollapsedByUser(a)

\* ==========================================================================
(* Facet clicks and the debounce timer *)

\* the nodes the filter rule names for a term and the current selections
RuleFor(term) ==
  IF term = "" /\ selectedPresets = {} /\ selectedForks = {} /\ selectedRunners = {}
  THEN DOMAIN tree
  ELSE LET S == { n \in DOMAIN tree :
                  Satisfies(n, term, selectedPresets, selectedForks, selectedRunners) }
       IN S \cup AncestorsOfAll(S)

\* the text of the search box, trimmed and in lower case
BoxTerm == ToLowerCase(Trim(searchInput))

\* C31: a facet click recomputes the buttons' availability and the nodes' visibility
\* within the click, from the search box's current text, also while a debounce timer
\* is pending; a timer that fires applies the search term current when it fires, not
\* the one it was set with
C31_ClickNowTimerCurrentTerm ==
  /\ FacetClick => DisabledAsClaimed /\ VisibleNodes = RuleFor(BoxTerm)
  /\ lastHandler = "timer" => VisibleNodes = RuleFor(searchTerm)

\* the timer was set with one term, the box was cleared, a facet was clicked while the
\* timer was pending, and the timer has fired
C31_Witness ==
  /\ lastHandler = "timer"
  /\ timerTerm # <<>> /\ timerTerm # <<searchTerm>>
  /\ clickHist # NULL
  /\ selectedPresets \cup selectedForks \cup selectedRunners # {}
  /\ VisibleNodes # DOMAIN tree
  /\ VisibleNodes # RuleFor(timerTerm[1])

\* ==========================================================================
(* The batches of the companion resolver *)

\* the position of fixture f in filesToProcess, 0 if it is not there
PositionOf(f) ==
  IF \E i \in 1..Len(filesToProcess) : filesToProcess[i].sszFile = f
  THEN CHOOSE i \in 1..Len(filesToProcess) : filesToProcess[i].sszFile = f
  ELSE 0

\* the batch a position of filesToProcess falls into, counted from 0
BatchOf(pos) == (pos - 1) \div batchSize

\* the fixtures whose decode of the current run has started and not settled
InFlight ==
  { f \in Fixtures : decodeLog[<<runNo, f>>] # <<>>
                     /\ decodeLog[<<runNo, f>>][Len(decodeLog[<<runNo, f>>])] = "pending" }

\* the fixtures whose decode of the current run has started
Started == { f \in Fixtures : decodeLog[<<runNo, f>>] # <<>> }

\* the results counted so far
Aggregated == successCount + skippedCount + errorCount

\* C32: no decode of a later batch starts before every decode of the batch before has
\* settled, the results of a batch are counted only when all its decodes have settled,
\* and at most BATCH_SIZE decodes are in flight at any time
C32_BatchesSequential ==
  runNo >= 1 =>
    /\ Cardinality(InFlight) <= batchSize
    /\ \A f \in Started : PositionOf(f) # 0 /\ BatchOf(PositionOf(f)) <= batchIdx
    /\ \A f \in InFlight : BatchOf(PositionOf(f)) = batchIdx /\ resPc = "await"
    /\ Aggregated =
         Cardinality({ i \in 1..Len(filesToProcess) : BatchOf(i) < batchIdx })
    /\ \A i \in 1..Len(filesToProcess) :
         BatchOf(i) < batchIdx => /\ filesToProcess[i].sszFile \in Started
                                  /\ filesToProcess[i].sszFile \notin InFlight

\* two decodes of a batch were started, one has settled, one is in flight, and a file of
\* the next batch waits
C32_Witness ==
  /\ runNo >= 1 /\ resPc = "await" /\ batchSize = 2
  /\ Len(settled) = 2 /\ \E i, j \in 1..2 : settled[i] = NULL /\ settled[j] # NULL
  /\ Cardinality(InFlight) = 1
  /\ \E i \in 1..Len(filesToProcess) :
       BatchOf(i) > batchIdx /\ filesToProcess[i].sszFile \notin Started

\* ==========================================================================
(* js/main.js onTestSelect with several calls in flight: every call keeps its own
   filePromises, loadedFileMap and allLoadedFiles; the viewer, the download button and
   the cache are shared *)

\* most calls of onTestSelect
MaxCalls == 2

\* the test cases of the tree that can be selected, with their file lists
CaseFiles ==
  [ a |-> <<"data.yaml", "meta.yaml">>,
    b |-> <<"data.yaml", "pre.ssz_snappy", "pre.ssz_snappy.yaml">> ]

CaseNames == DOMAIN CaseFiles

\* the record the promise of file name of test case t resolves with
FetchedFile(t, name) ==
  [name |-> name, isBinary |-> EndsWith(name, ".ssz_snappy"), testCase |-> t]

\* the file boxes displayTestSkeleton and displayTest make: one per file that is not a
\* companion of a fixture of the list
BoxNames(files) ==
  { n \in Range(files) :
    ~(EndsWith(n, ".ssz_snappy.yaml") /\ ReplaceFirst(n, ".yaml", "") \in Range(files)) }

\* displayTestSkeleton: the viewer shows the case with one loading box per file
DisplayTestSkeleton(t, files) ==
  [title |-> t, boxes |-> [n \in BoxNames(files) |-> <<>>]]

\* updateFileBox(name, file, yaml) on the viewer: the box of that name, if the viewer
\* has one, takes the content
ApplyUpdate(v, u) ==
  IF u.name \in DOMAIN v.boxes THEN [v EXCEPT !.boxes[u.name] = <<u>>] ELSE v

RECURSIVE ApplyUpdates(_, _)
ApplyUpdates(v, us) ==
  IF us = <<>> THEN v ELSE ApplyUpdates(ApplyUpdate(v, Head(us)), Tail(us))

\* displayTest(test): the viewer shows the case with the boxes of the given files
DisplayTest(t, files) ==
  [title |-> t,
   boxes |-> [n \in BoxNames([i \in 1..Len(files) |-> files[i].name]) |->
              LET i == CHOOSE j \in 1..Len(files) : files[j].name = n
              IN <<UpdateFileBox(n, files[i],
                                 IF \E j \in 1..Len(files) : files[j].name = n \o ".yaml"
                                 THEN files[CHOOSE j \in 1..Len(files) :
                                              files[j].name = n \o ".yaml"]
                                 ELSE NULL)>>]]

\* the download button bound to a test name and its files
BoundTo(enabled, t, files) == [enabled |-> enabled, testName |-> t, files |-> files]

\* init() is over, no test case has been selected yet
SelectInit ==
  /\ selectCalls = <<>>
  /\ viewer = [title |-> "", boxes |-> EmptyObj]
  /\ downloadButton = BoundTo(FALSE, "", <<>>)
  /\ suiteCache = EmptyObj

\* onTestSelect(testPath) up to its return or its first await
SelectCase(t) ==
  /\ Len(selectCalls) < MaxCalls
  /\ IF t \in DOMAIN suiteCache
     THEN /\ viewer' = DisplayTest(t, suiteCache[t])
          /\ downloadButton' = BoundTo(downloadButton.enabled, t, suiteCache[t])
          /\ UNCHANGED selectCalls
     ELSE /\ viewer' = DisplayTestSkeleton(t, CaseFiles[t])
          /\ downloadButton' = [downloadButton EXCEPT !.enabled = FALSE]
          /\ selectCalls' =
               Append(selectCalls,
                      [testCase |-> t,
                       filePromises |-> LoadTestFilesProgressive(CaseFiles[t]),
                       sszWithYaml |-> SszWithYaml(Range(CaseFiles[t])),
                       loadedFileMap |-> EmptyObj,
                       allLoadedFiles |-> <<>>,
                       pc |-> "loading"])
  /\ UNCHANGED suiteCache
  /\ UNCHANGED <<filterVars, buildVars, walkVars, versionVars, resolverVars, loaderVars,
                 sessionVars, debounceVars, prepVars, treeVars>>

\* state.loadedSuites.set(cacheKey, allLoadedFiles)
CacheLoadedFiles(cache, call) == Put(cache, call.testCase, call.allLoadedFiles)

\* the rest of call c after one of its promises settled: when it was the last one,
\* await Promise.all returns, the files are cached and the download button is enabled
AfterSettle(c, call, v) ==
  IF \A n \in DOMAIN call.filePromises : call.filePromises[n] # "pending"
  THEN /\ selectCalls' = [selectCalls EXCEPT ![c] = [call EXCEPT !.pc = "done"]]
       /\ suiteCache' = CacheLoadedFiles(suiteCache, call)
       /\ downloadButton' = BoundTo(TRUE, call.testCase, call.allLoadedFiles)
       /\ viewer' = v
  ELSE /\ selectCalls' = [selectCalls EXCEPT ![c] = call]
       /\ viewer' = v
       /\ UNCHANGED <<suiteCache, downloadButton>>

\* filePromise.promise.then(fileData => ...) of call c for file name
FileArrives(c, name) ==
  /\ c \in DOMAIN selectCalls
  /\ name \in DOMAIN selectCalls[c].filePromises
  /\ selectCalls[c].filePromises[name] = "pending"
  /\ LET old == selectCalls[c]
         fileData == FetchedFile(old.testCase, name)
         fileMap == Put(old.loadedFileMap, name, fileData)
         call == [old EXCEPT !.filePromises[name] = "fulfilled",
                             !.loadedFileMap = fileMap,
                             !.allLoadedFiles = Append(old.allLoadedFiles, fileData)]
     IN AfterSettle(c, call,
                    ApplyUpdates(viewer, OnFileLoaded(fileData, fileMap, old.sszWithYaml)))
  /\ UNCHANGED <<filterVars, buildVars, walkVars, versionVars, resolverVars, loaderVars,
                 sessionVars, debounceVars, prepVars, treeVars>>

\* .catch(error => console.error(...)) of call c for file name
FileFails(c, name) ==
  /\ c \in DOMAIN selectCalls
  /\ name \in DOMAIN selectCalls[c].filePromises
  /\ selectCalls[c].filePromises[name] = "pending"
  /\ AfterSettle(c, [selectCalls[c] EXCEPT !.filePromises[name] = "rejected"], viewer)
  /\ UNCHANGED <<filterVars, buildVars, walkVars, versionVars, resolverVars, loaderVars,
                 sessionVars, debounceVars, prepVars, treeVars>>

CaseFileNames == UNION { Range(CaseFiles[t]) : t \in CaseNames }

InitSelect ==
  /\ SelectInit /\ FilterIdle /\ BuildIdle /\ WalkIdle /\ VersionsIdle /\ ResolverIdle
  /\ LoaderIdle /\ SessionIdle /\ DebounceIdle /\ PrepIdle /\ TreeIdle

NextSelect ==
  \/ \E t \in CaseNames : SelectCase(t)
  \/ \E c \in 1..MaxCalls, name \in CaseFileNames : FileArrives(c, name)
  \/ \E c \in 1..MaxCalls, name \in CaseFileNames : FileFails(c, name)

SpecSelect == InitSelect /\ [][NextSelect]_vars

\* --------------------------------------------------------------------------
\* the files shown in the boxes of the viewer
ShownFiles ==
  UNION { { viewer.boxes[n][1].file } \cup
          ( IF viewer.boxes[n][1].yaml = NULL THEN {} ELSE { viewer.boxes[n][1].yaml } ) :
          n \in { m \in DOMAIN viewer.boxes : viewer.boxes[m] # <<>> } }

\* C33: no file of another test case than the one the viewer shows fills one of its
\* boxes, and the enabled download button is bound to the name and the files of the
\* test case the viewer shows
C33_NoCrossTalkBetweenSelections ==
  /\ \A f \in ShownFiles : f.testCase = viewer.title
  /\ downloadButton.enabled =>
       /\ downloadButton.testName = viewer.title
       /\ \A i \in 1..Len(downloadButton.files) :
            downloadButton.files[i].testCase = viewer.title

\* C37: the cache holds an entry for a test case only if every requested file of the
\* case was loaded; a load with a failed file leaves no entry
C37_CacheOnlyCompleteLoads ==
  \A t \in DOMAIN suiteCache :
    { suiteCache[t][i].name : i \in 1..Len(suiteCache[t]) } = Range(CaseFiles[t])

\* ==========================================================================
(* Version changes in quick succession *)

\* C35: whatever the interleaving of version changes and manifest responses, once every
\* manifest load has settled the manifest shown in the tree is that of
\* state.currentVersion (stated here for the runs in which no load failed)
C35_SettledManifestIsCurrent ==
  (manifestLoads = <<>> /\ ~errorShown) =>
    manifestOf = currentVersion /\ treeOf = currentVersion

\* ==========================================================================
(* A version change while the page is in use: loadVersionData builds the tree and the
   facet buttons anew; the selection sets of tree.js are module state and stay *)

\* the manifests of the versions the selector offers
VersionManifests == { BuildManifest(<<LoadPool[1]>>), BuildManifest(<<LoadPool[2]>>) }

\* loadVersionData after loadManifest resolved: buildTree(state.manifest, onTestSelect)
RebuildTree(m) ==
  /\ m # treeData
  /\ treeData' = m
  /\ tree' = BuildTree(m)
  /\ display' = [id \in DOMAIN BuildTree(m) |-> ""]
  /\ collapsed' = [id \in { n \in DOMAIN BuildTree(m) : BuildTree(m)[n].hasChildren } |-> TRUE]
  /\ btnActive' = [b \in Buttons(m) |-> FALSE]
  /\ btnDisabled' = [b \in Buttons(m) |-> FALSE]
  /\ clickHist' = NULL
  /\ lastHandler' = "rebuild"
  /\ UNCHANGED <<selectedPresets, selectedForks, selectedRunners, searchInput, searchTerm,
                 searchTimeout, timerTerm>>
  /\ UNCHANGED <<buildVars, walkVars, restVars>>

InitRebuild == Init /\ treeData \in VersionManifests

NextRebuild ==
  \/ Next
  \/ \E m \in VersionManifests : RebuildTree(m)

SpecRebuild == InitRebuild /\ [][NextRebuild]_vars

\* C34: after a version change has rebuilt the tree and the facet buttons, a button is
\* shown active if and only if its value is in its facet's selection set, a button is
\* disabled as the availability rule says for the current selections, and the visible
\* nodes are those the filter rule names for the current selections and search term
C34_ConsistentAfterRebuild ==
  lastHandler = "rebuild" =>
    /\ \A b \in DOMAIN btnActive : btnActive[b] <=> b[2] \in SelectedOf(b[1])
    /\ DisabledAsClaimed
    /\ VisibleAsClaimed

\* ==========================================================================
(* Selections reachable through enabled buttons *)

\* the (preset, fork, testType) keys of the manifest that fit the current selections
CompatibleTriples ==
  { k \in Triples(treeData) :
    /\ selectedPresets = {} \/ k[1] \in selectedPresets
    /\ selectedForks = {} \/ k[2] \in selectedForks
    /\ selectedRunners = {} \/ k[3] \in selectedRunners }

\* a facet button whose value is selected
SelectedButtons == { b \in DOMAIN btnDisabled : b[2] \in SelectedOf(b[1]) }

\* C36: within one loaded manifest, clicking enabled buttons only, the selected
\* (preset, fork, runner) combination always fits at least one manifest entry, no
\* selected button is disabled, and after a filter pass with an empty search term at
\* least one leaf is visible
C36_SelectionAlwaysCompatible ==
  /\ CompatibleTriples # {}
  /\ \A b \in SelectedButtons : ~btnDisabled[b]
  /\ (FilterTreeRan /\ searchTerm = "") => VisibleLeaves # {}

\* all three facets are selected, reached through enabled buttons, and some button of
\* each facet is disabled
C36_Witness ==
  /\ FacetClick
  /\ selectedPresets # {} /\ selectedForks # {} /\ selectedRunners # {}
  /\ Cardinality(SelectedButtons) = 3
  /\ \E b \in DOMAIN btnDisabled : btnDisabled[b]
  /\ searchTerm = "" /\ VisibleLeaves # LeafNodes


-----------------------------------------------------------------------------
(* Names within a config, and the total of the statistics *)

\* the <<suite key, config>> pairs of a manifest
ConfigKeys(m) ==
  UNION { { <<k, c>> : c \in DOMAIN SuiteAt(m, k).configs } : k \in SuiteKeys(m) }

\* the tests of one config
TestsOf(m, kc) == SuiteAt(m, kc[1]).configs[kc[2]].tests

\* C38: in the manifest buildManifest returns for directories with pairwise
\* distinct paths, the entries of every config's tests have pairwise distinct names.
C38_NamesDistinctInConfig ==
  bmPc = "done" =>
    \A kc \in ConfigKeys(manifest) :
      \A i, j \in 1..Len(TestsOf(manifest, kc)) :
        TestsOf(manifest, kc)[i].name = TestsOf(manifest, kc)[j].name => i = j

RECURSIVE SumTestCounts(_, _)
\* the sum of the testCount of the suites with the keys ks
SumTestCounts(m, ks) ==
  IF ks = {} THEN 0
  ELSE LET k == CHOOSE x \in ks : TRUE
       IN SuiteAt(m, k).testCount + SumTestCounts(m, ks \ {k})

\* the directories of the input that buildManifest skips
Skipped(tcs) == (1..Len(tcs)) \ Accepted(tcs)

\* C39: in the manifest buildManifest returns, stats.totalTests is the number of
\* input directories, which is the sum of the testCount of all suites plus the
\* number of skipped directories; it is the number of test entries exactly when
\* no directory was skipped.
C39_TotalCountsInputs ==
  bmPc = "done" =>
    /\ manifest.stats.totalTests = Len(testCases)
    /\ manifest.stats.totalTests =
         SumTestCounts(manifest, SuiteKeys(manifest)) + Cardinality(Skipped(testCases))
    /\ manifest.stats.totalTests = Cardinality(EntryPositions(manifest))
         <=> Skipped(testCases) = {}

\* a returned manifest with entries in two suites and a skipped directory
C39_Witness ==
  /\ bmPc = "done"
  /\ Skipped(testCases) # {}
  /\ Cardinality(SuiteKeys(manifest)) >= 2
  /\ manifest.stats.totalTests > Cardinality(EntryPositions(manifest))

\* ==========================================================================
(* Filter passes and the expansion state *)

\* node n was expanded and is collapsed after the step
CollapsedByStep(n) == ~collapsed[n] /\ collapsed'[n]

\* C40: a step collapses a node only if it is the user's click on that node's
\* label, so no search, facet click or clearing collapses a node; after a pass with
\* no active filter every node is displayed, and the nodes an earlier pass expanded
\* are still expanded.
C40_FiltersOnlyExpand ==
  /\ []((FilterTreeRan /\ NoPredicate) => VisibleNodes = DOMAIN tree)
  /\ [][\A n \in DOMAIN collapsed :
          CollapsedByStep(n) => toggleLog' = Append(toggleLog, <<n, TRUE>>)]_vars

\* filters are cleared, every node is displayed, and a node the user never clicked
\* is expanded
C40_Witness ==
  /\ FilterTreeRan /\ NoPredicate
  /\ VisibleNodes = DOMAIN tree
  /\ \E n \in DOMAIN collapsed :
       /\ ~collapsed[n]
       /\ \A i \in 1..Len(toggleLog) : toggleLog[i][1] # n
=============================================================================
